---- MODULE Spec2Model ----
(***************************************************************************)
(* Multi-tenant authentication gateway (FastAPI + Firebase Identity        *)
(* Platform + PostgreSQL row level security).                              *)
(*                                                                         *)
(* Part 1  app/database.py, app/dependencies.py: SessionManager and the    *)
(*         pooled connections its statements run on.                       *)
(* Part 2  scripts/generate_rls_policies.py: the generated policies.       *)
(* Part 3  app/middleware/auth_middleware.py: AuthMiddleware.dispatch,     *)
(*         and concurrent requests from dispatch to get_db_with_tenant.    *)
(* Part 4  app/routers/onboarding.py: register_company.                    *)
(* Part 5  get_firebase_app and app/utils/secret_manager.py.               *)
(***************************************************************************)
EXTENDS Integers, Sequences, FiniteSets, TLC

(***************************************************************************)
(* Part 1: SessionManager.get_session                                      *)
(*                                                                         *)
(* A unit of work is one use of `async with ...get_session()`.  Every      *)
(* await of get_session and of its body is a suspension point, so each is  *)
(* one step and the steps of concurrent units interleave.                  *)
(*                                                                         *)
(* Collaborators, as the code relies on them:                              *)
(*  - AsyncSessionLocal() creates a session without a connection; the      *)
(*    first statement after creation, commit or rollback checks a          *)
(*    connection out of the engine's pool and begins a transaction on it;  *)
(*    commit, rollback and close end the transaction and hand the          *)
(*    connection back (the pool rolls back what is still open).            *)
(*  - PostgreSQL: SET LOCAL lasts until the transaction ends; RESET (like  *)
(*    SET) is a session-level change that takes effect at once and is      *)
(*    undone when its transaction rolls back.                              *)
(***************************************************************************)

\* Python None as a tenant id.
NoneVal == "<None>"
Tenants == {"tA", "tB"}
TenantArgs == Tenants \cup {NoneVal, ""}
\* current_setting(rls_setting_name, true) when the setting was never set.
Unset == "<unset>"
\* No SET LOCAL in the open transaction.
NoOverride == "<none>"

NUnits == 2
NConns == 2
Units == 1..NUnits
Conns == 1..NConns

\* Who enters get_session, and with which body.
Uses == {"get_db_with_tenant", "get_db_session", "insert_company", "delete_company"}

VARIABLES
    pc,          \* per unit: where it is in get_session
    use,         \* per unit: the caller of get_session
    tenant_id,   \* per unit: SessionManager.tenant_id
    session,     \* per unit: the connection its AsyncSession holds, 0 for none
    ip,          \* per unit: next operation of the body
    body,        \* per unit: how the body ended
    raised,      \* per unit: the exception in flight
    result,      \* per unit: what the caller of get_session observes
    calls,       \* per unit: the calls made on its AsyncSession, in order
    pool,        \* per connection: owner and the value of the tenant setting
    reqs         \* per unit: the HTTP request whose handler it serves, if any

sessVars == <<pc, use, tenant_id, session, ip, body, raised, result, calls, pool, reqs>>

\* Part 2: the table companies and the database session that queries it.
VARIABLES
    companies,   \* the rows of the table
    dbsession,   \* is_superuser and the tenant setting of the session
    stmt         \* the last statement: command, rows read or changed, rows written

rlsVars == <<companies, dbsession, stmt>>

\* Part 3: one request on its way through AuthMiddleware.dispatch.
VARIABLES
    phase,          \* "idle", "handler" (forwarded, handler running) or "done"
    request,        \* the request: url.path and the Authorization header
    state,          \* request.state
    header_reads,   \* reads of the Authorization header for this request
    verify_calls,   \* calls of auth.verify_id_token for this request
    forwards,       \* calls of call_next for this request
    handled,        \* what call_next(request) returned or raised
    response        \* what dispatch's caller receives

authVars == <<phase, request, state, header_reads, verify_calls, forwards, handled, response>>

\* Part 4: calls of register_company, one after another.
VARIABLES
    step,        \* where register_company is: "idle", a step of it, or "done"
    locals,      \* its local variables and the except block it is in
    db,          \* the tenant session it has open: position, exception in flight, pending write
    trace,       \* the calls this call of register_company has made, in order
    provider,    \* the identity provider: the tenants and users that exist
    committed,   \* the rows of companies that are committed
    outcome,     \* what the caller of register_company received
    history,     \* what the callers of the earlier calls received, in order
    ncalls       \* calls of register_company so far

onbVars == <<step, locals, db, trace, provider, committed, outcome, history, ncalls>>

\* Part 5: the process-wide Firebase app and the calls of get_firebase_app.
VARIABLES
    settings,      \* app.config.settings, as get_firebase_app reads it
    firebase_app,  \* the module global _firebase_app
    fb,            \* per call of get_firebase_app: position, credential source
    applog,        \* secret-store accesses, credential reads and initialisations, by call
    appresults,    \* what each call of get_firebase_app returned or raised
    napp,          \* calls of get_firebase_app so far
    arrivals       \* the requests that reached dispatch, with what each found stored

appVars == <<settings, firebase_app, fb, applog, appresults, napp, arrivals>>

vars == <<sessVars, rlsVars, authVars, onbVars, appVars>>

FalsyNoneOnly(t) == t = NoneVal
\* `not tenant_id`
Falsy(t) == t \in {NoneVal, ""}

\* dependencies.get_db_with_tenant's own check, before it builds a manager.
DependencyRejects(u, t) == u = "get_db_with_tenant" /\ Falsy(t)

ManagerRejectsNoneOnly(t) == t = NoneVal
\* SessionManager.get_session's check, before AsyncSessionLocal().
ManagerRejects(t) == Falsy(t)

SetTenantParamsFixed(t) == "tA"
\* {"tenant_id": self.tenant_id}
SetTenantParams(t) == t

AfterSetTenantInsideTry(ok) == IF ok THEN "body" ELSE "rollback"
\* The SET LOCAL statement stands before the `try`: when it raises, neither
\* `except` nor `finally` applies and `async with AsyncSessionLocal()` exits.
AfterSetTenant(ok) == IF ok THEN "body" ELSE "close"

OnBodyReturnSkipsCommit == "reset"
\* After the yield returns: `await session.commit()` is next.
OnBodyReturn == "commit"

AfterCommitSkipsReset(ok) == IF ok THEN "close" ELSE "rollback"
\* After commit: `finally` when it returned, `except Exception` when it raised.
AfterCommit(ok) == IF ok THEN "reset" ELSE "rollback"

ReraiseSwallows(e, ok) == IF ok THEN "none" ELSE "RollbackError"
\* `await session.rollback(); raise`: the caught exception goes on, unless
\* rollback itself raised.
Reraise(e, ok) == IF ok THEN e ELSE "RollbackError"

\* `finally: await session.execute(RESET)`: what is in flight after it.
AfterReset(e, ok) == IF ok THEN e ELSE "ResetError"

\* The operations of each body, in order.
BodyOps(u) ==
    CASE u = "get_db_with_tenant" -> <<"execute">>
      [] u = "get_db_session"     -> <<>>
      [] u = "insert_company"     -> <<"flush">>
      [] u = "delete_company"     -> <<"execute", "delete_commit">>

Ev(by, op, ok, c, arg) == [by |-> by, op |-> op, ok |-> ok, conn |-> c, arg |-> arg]

\* ------------------------------------------------------------- connections

AnyConns(p) == Conns
\* The connections a checkout may hand out: those nobody holds.
FreeConns(p) == {c \in Conns : p[c].owner = 0}

\* The connections unit s's next statement may run on.
ConnsFor(s) == IF session[s] # 0 THEN {session[s]} ELSE FreeConns(pool)

\* Autobegin: the connection is checked out and a transaction begins.
Checkout(p, s, c) ==
    [p EXCEPT ![c] = [owner |-> s, guc |-> @.guc, local |-> NoOverride, pend |-> @.guc]]

Held(p, s, c) == IF p[c].owner = s THEN p ELSE Checkout(p, s, c)

\* current_setting(rls_setting_name, true) on a connection inside a transaction.
Binding(p, c) == IF p[c].local # NoOverride THEN p[c].local ELSE p[c].pend

SetSessionWide(p, c, v) == [p EXCEPT ![c].local = NoOverride, ![c].pend = v]
\* SET LOCAL <rls_setting_name> = :tenant_id
SetLocal(p, c, v) == [p EXCEPT ![c].local = v]

\* RESET <rls_setting_name>
ResetSetting(p, c) == [p EXCEPT ![c].local = NoOverride, ![c].pend = Unset]

\* COMMIT: session-level changes of the transaction become the connection's.
CommitTxn(p, c) ==
    [p EXCEPT ![c] = [owner |-> 0, guc |-> @.pend, local |-> NoOverride, pend |-> @.pend]]

\* ROLLBACK, also the pool's reset of a connection handed back.
RollbackTxn(p, c) ==
    [p EXCEPT ![c] = [owner |-> 0, guc |-> @.guc, local |-> NoOverride, pend |-> @.guc]]

Release(p, s) == IF session[s] = 0 THEN p ELSE RollbackTxn(p, session[s])

InitSession ==
    /\ pc = [s \in Units |-> "new"]
    /\ use = [s \in Units |-> "get_db_session"]
    /\ tenant_id = [s \in Units |-> NoneVal]
    /\ session = [s \in Units |-> 0]
    /\ ip = [s \in Units |-> 1]
    /\ body = [s \in Units |-> "none"]
    /\ raised = [s \in Units |-> "none"]
    /\ result = [s \in Units |-> "none"]
    /\ calls = [s \in Units |-> <<>>]
    /\ pool = [c \in Conns |-> [owner |-> 0, guc |-> Unset, local |-> NoOverride, pend |-> Unset]]
    /\ reqs = [s \in Units |-> [pc |-> "none"]]

\* ------------------------------------------------------------- get_session

\* `async with SessionManager(tenant_id=t).get_session()` is entered: the tenant
\* check, then AsyncSessionLocal().
Enter(s, u, t) ==
    /\ pc[s] = "new"
    /\ use' = [use EXCEPT ![s] = u]
    /\ tenant_id' = [tenant_id EXCEPT ![s] = t]
    /\ IF DependencyRejects(u, t) \/ ManagerRejects(t)
       THEN /\ pc' = [pc EXCEPT ![s] = "done"]
            /\ result' = [result EXCEPT ![s] = "ValueError"]
            /\ calls' = calls
       ELSE /\ pc' = [pc EXCEPT ![s] = "opened"]
            /\ result' = result
            /\ calls' = [calls EXCEPT ![s] = <<Ev("manager", "open", TRUE, 0, t)>>]
    /\ UNCHANGED <<session, ip, body, raised, pool>>
    /\ UNCHANGED <<reqs, rlsVars, authVars, onbVars, appVars>>

\* await session.execute(text("SET LOCAL ..."), {"tenant_id": self.tenant_id});
\* when it raises, the exception leaves `async with AsyncSessionLocal()`.
SetTenant(s) ==
    /\ pc[s] = "opened"
    /\ \E c \in ConnsFor(s), ok \in BOOLEAN :
        LET v == SetTenantParams(tenant_id[s]) IN
        /\ session' = [session EXCEPT ![s] = c]
        /\ pool' = IF ok THEN SetLocal(Held(pool, s, c), c, v) ELSE Held(pool, s, c)
        /\ calls' = [calls EXCEPT ![s] = Append(@, Ev("manager", "set", ok, c, v))]
        /\ pc' = [pc EXCEPT ![s] = AfterSetTenant(ok)]
        /\ raised' = [raised EXCEPT ![s] = IF ok THEN @ ELSE "SetError"]
    /\ UNCHANGED <<use, tenant_id, ip, body, result>>
    /\ UNCHANGED <<reqs, rlsVars, authVars, onbVars, appVars>>

\* The body awaits a data statement: db.execute(select ...), db.flush().
BodyExecute(s) ==
    /\ pc[s] = "body"
    /\ ip[s] <= Len(BodyOps(use[s]))
    /\ BodyOps(use[s])[ip[s]] \in {"execute", "flush"}
    /\ \E c \in ConnsFor(s), ok \in BOOLEAN :
        /\ session' = [session EXCEPT ![s] = c]
        /\ pool' = Held(pool, s, c)
        /\ calls' = [calls EXCEPT ![s] =
                 Append(@, Ev("body", BodyOps(use[s])[ip[s]], ok, c, Binding(Held(pool, s, c), c)))]
        /\ IF ok
           THEN /\ ip' = [ip EXCEPT ![s] = @ + 1]
                /\ UNCHANGED <<pc, body, raised>>
           ELSE /\ pc' = [pc EXCEPT ![s] = "rollback"]
                /\ body' = [body EXCEPT ![s] = "StmtError"]
                /\ raised' = [raised EXCEPT ![s] = "StmtError"]
                /\ ip' = ip
    /\ UNCHANGED <<use, tenant_id, result>>
    /\ UNCHANGED <<reqs, rlsVars, authVars, onbVars, appVars>>

\* register_company's compensation found the row: `await db.delete(company)`,
\* `await db.commit()` (the DELETE is flushed, then the transaction committed).
BodyDeleteCommit(s) ==
    /\ pc[s] = "body"
    /\ ip[s] <= Len(BodyOps(use[s]))
    /\ BodyOps(use[s])[ip[s]] = "delete_commit"
    /\ session[s] # 0
    /\ \E ok \in BOOLEAN :
        LET c == session[s] IN
        /\ calls' = [calls EXCEPT ![s] =
                 Append(Append(@, Ev("body", "delete", TRUE, c, Binding(pool, c))),
                        Ev("body", "commit", ok, c, Binding(pool, c)))]
        /\ IF ok
           THEN /\ pool' = CommitTxn(pool, c)
                /\ session' = [session EXCEPT ![s] = 0]
                /\ ip' = [ip EXCEPT ![s] = @ + 1]
                /\ UNCHANGED <<pc, body, raised>>
           ELSE /\ pc' = [pc EXCEPT ![s] = "rollback"]
                /\ body' = [body EXCEPT ![s] = "StmtError"]
                /\ raised' = [raised EXCEPT ![s] = "StmtError"]
                /\ UNCHANGED <<pool, session, ip>>
    /\ UNCHANGED <<use, tenant_id, result>>
    /\ UNCHANGED <<reqs, rlsVars, authVars, onbVars, appVars>>

\* The body has nothing left to do: past its last operation, or the compensation
\* found no row (`if company:` is false).
BodyCanReturn(s) ==
    \/ ip[s] > Len(BodyOps(use[s]))
    \/ use[s] = "delete_company" /\ ip[s] = 2

\* The body ends normally: control returns to get_session after the yield.
BodyReturn(s) ==
    /\ pc[s] = "body"
    /\ BodyCanReturn(s)
    /\ pc' = [pc EXCEPT ![s] = OnBodyReturn]
    /\ body' = [body EXCEPT ![s] = "returned"]
    /\ UNCHANGED <<use, tenant_id, session, ip, raised, result, calls, pool>>
    /\ UNCHANGED <<reqs, rlsVars, authVars, onbVars, appVars>>

\* Nothing follows the compensation's own commit, so nothing can raise there.
BodyCanRaise(s) == ~(use[s] = "delete_company" /\ ip[s] > 2)

\* The body raises an exception that is an Exception (HTTPException, ValueError):
\* it is thrown into get_session at the yield.
BodyRaise(s) ==
    /\ pc[s] = "body"
    /\ BodyCanRaise(s)
    /\ pc' = [pc EXCEPT ![s] = "rollback"]
    /\ body' = [body EXCEPT ![s] = "BodyError"]
    /\ raised' = [raised EXCEPT ![s] = "BodyError"]
    /\ UNCHANGED <<use, tenant_id, session, ip, result, calls, pool>>
    /\ UNCHANGED <<reqs, rlsVars, authVars, onbVars, appVars>>

\* The unit is cancelled while the body is suspended in an await: CancelledError
\* is a BaseException, `except Exception` does not catch it, `finally` runs.
BodyCancel(s) ==
    /\ pc[s] = "body"
    /\ ip[s] <= Len(BodyOps(use[s]))
    /\ pc' = [pc EXCEPT ![s] = "reset"]
    /\ body' = [body EXCEPT ![s] = "CancelledError"]
    /\ raised' = [raised EXCEPT ![s] = "CancelledError"]
    /\ UNCHANGED <<use, tenant_id, session, ip, result, calls, pool>>
    /\ UNCHANGED <<reqs, rlsVars, authVars, onbVars, appVars>>

\* await session.commit(); when it raises, `except Exception` catches it.
Commit(s) ==
    /\ pc[s] = "commit"
    /\ \E ok \in {TRUE} \cup (IF session[s] # 0 THEN {FALSE} ELSE {}) :
        /\ calls' = [calls EXCEPT ![s] = Append(@, Ev("manager", "commit", ok, session[s], ""))]
        /\ pc' = [pc EXCEPT ![s] = AfterCommit(ok)]
        /\ IF ok
           THEN /\ pool' = IF session[s] # 0 THEN CommitTxn(pool, session[s]) ELSE pool
                /\ session' = [session EXCEPT ![s] = 0]
                /\ raised' = raised
           ELSE /\ raised' = [raised EXCEPT ![s] = "CommitError"]
                /\ UNCHANGED <<pool, session>>
    /\ UNCHANGED <<use, tenant_id, ip, body, result>>
    /\ UNCHANGED <<reqs, rlsVars, authVars, onbVars, appVars>>

\* except Exception: await session.rollback(); raise
Rollback(s) ==
    /\ pc[s] = "rollback"
    /\ \E ok \in {TRUE} \cup (IF session[s] # 0 THEN {FALSE} ELSE {}) :
        /\ calls' = [calls EXCEPT ![s] = Append(@, Ev("manager", "rollback", ok, session[s], ""))]
        /\ raised' = [raised EXCEPT ![s] = Reraise(@, ok)]
        /\ IF ok
           THEN /\ pool' = Release(pool, s)
                /\ session' = [session EXCEPT ![s] = 0]
           ELSE UNCHANGED <<pool, session>>
        /\ pc' = [pc EXCEPT ![s] = "reset"]
    /\ UNCHANGED <<use, tenant_id, ip, body, result>>
    /\ UNCHANGED <<reqs, rlsVars, authVars, onbVars, appVars>>

\* finally: await session.execute(text("RESET ...")); an exception it raises
\* replaces the one in flight.
Reset(s) ==
    /\ pc[s] = "reset"
    /\ \E c \in ConnsFor(s), ok \in BOOLEAN :
        /\ session' = [session EXCEPT ![s] = c]
        /\ pool' = IF ok THEN ResetSetting(Held(pool, s, c), c) ELSE Held(pool, s, c)
        /\ calls' = [calls EXCEPT ![s] = Append(@, Ev("manager", "reset", ok, c, ""))]
        /\ raised' = [raised EXCEPT ![s] = AfterReset(@, ok)]
    /\ pc' = [pc EXCEPT ![s] = "close"]
    /\ UNCHANGED <<use, tenant_id, ip, body, result>>
    /\ UNCHANGED <<reqs, rlsVars, authVars, onbVars, appVars>>

\* `async with AsyncSessionLocal()` exits: the session is closed, its connection
\* goes back to the pool, the exception in flight reaches the caller.
Close(s) ==
    /\ pc[s] = "close"
    /\ calls' = [calls EXCEPT ![s] = Append(@, Ev("manager", "close", TRUE, session[s], ""))]
    /\ pool' = Release(pool, s)
    /\ session' = [session EXCEPT ![s] = 0]
    /\ result' = [result EXCEPT ![s] = IF raised[s] = "none" THEN "ok" ELSE raised[s]]
    /\ pc' = [pc EXCEPT ![s] = "done"]
    /\ UNCHANGED <<use, tenant_id, ip, body, raised>>
    /\ UNCHANGED <<reqs, rlsVars, authVars, onbVars, appVars>>

NextSession ==
    \E s \in Units :
        \/ \E u \in Uses, t \in TenantArgs : Enter(s, u, t)
        \/ SetTenant(s)
        \/ BodyExecute(s)
        \/ BodyDeleteCommit(s)
        \/ BodyReturn(s)
        \/ BodyRaise(s)
        \/ BodyCancel(s)
        \/ Commit(s)
        \/ Rollback(s)
        \/ Reset(s)
        \/ Close(s)


(***************************************************************************)
(* Part 2: the policies generate_rls_sql writes for the table companies    *)
(*                                                                         *)
(* One database session (its role's is_superuser, and the value of the     *)
(* tenant setting) issues statements against the table.  PostgreSQL        *)
(* applies a policy's USING to the existing rows a command reads or        *)
(* changes (rows that fail are skipped), and its WITH CHECK to the rows a  *)
(* command writes (a row that fails aborts the statement).                 *)
(***************************************************************************)

CompanyNames == {"acme", "zeta"}
\* companies: the tenant column is the primary key.
CompanyRows == [tenant_id : Tenants, name : CompanyNames]


\* current_setting('is_superuser', true) = 'on'
SuperuserPredicate(d) == d.is_superuser = "on"

\* <tenant_column> = current_setting('<setting_name>', true); the setting is
\* NULL when it was never set, and the comparison is then not true.
TenantPredicate(row, d) == d.current_tenant # Unset /\ row.tenant_id = d.current_tenant

\* CREATE POLICY companies_select_policy ... FOR SELECT USING (...)
companies_select_policy(row, d) == SuperuserPredicate(d) \/ TenantPredicate(row, d)

companies_insert_policy_open(row, d) == TRUE
\* CREATE POLICY companies_insert_policy ... FOR INSERT WITH CHECK (...)
companies_insert_policy(row, d) == SuperuserPredicate(d) \/ TenantPredicate(row, d)

\* CREATE POLICY companies_update_policy ... FOR UPDATE USING (...)
companies_update_policy_using(row, d) == SuperuserPredicate(d) \/ TenantPredicate(row, d)

\* ... WITH CHECK (...)
companies_update_policy_check(row, d) == SuperuserPredicate(d) \/ TenantPredicate(row, d)

\* CREATE POLICY companies_delete_policy ... FOR DELETE USING (...)
companies_delete_policy(row, d) == SuperuserPredicate(d) \/ TenantPredicate(row, d)

NoStmt == [cmd |-> "none", old |-> {}, new |-> {}, error |-> FALSE]

InitRLS ==
    /\ companies = {}
    /\ dbsession = [is_superuser |-> "off", current_tenant |-> Unset]
    /\ stmt = NoStmt

\* A session of a role, with the tenant setting as SET LOCAL left it (or unset).
Connect(su, t) ==
    /\ dbsession' = [is_superuser |-> su, current_tenant |-> t]
    /\ stmt' = NoStmt
    /\ UNCHANGED companies
    /\ UNCHANGED <<sessVars, authVars, onbVars, appVars>>

\* SELECT * FROM companies
Select ==
    /\ stmt' = [cmd |-> "SELECT",
                old |-> {r \in companies : companies_select_policy(r, dbsession)},
                new |-> {}, error |-> FALSE]
    /\ UNCHANGED <<companies, dbsession>>
    /\ UNCHANGED <<sessVars, authVars, onbVars, appVars>>

\* INSERT INTO companies VALUES (row): refused when the row fails WITH CHECK or
\* its key is taken.
Insert(row) ==
    /\ IF /\ companies_insert_policy(row, dbsession)
          /\ \A r \in companies : r.tenant_id # row.tenant_id
       THEN /\ companies' = companies \cup {row}
            /\ stmt' = [cmd |-> "INSERT", old |-> {}, new |-> {row}, error |-> FALSE]
       ELSE /\ companies' = companies
            /\ stmt' = [cmd |-> "INSERT", old |-> {}, new |-> {}, error |-> TRUE]
    /\ UNCHANGED dbsession
    /\ UNCHANGED <<sessVars, authVars, onbVars, appVars>>

\* The rows a command with `WHERE <tenant column> = key` finds: those the SELECT
\* policy shows and the command's own USING passes.
CanSeeForUpdate(key, d) ==
    {r \in companies : /\ r.tenant_id = key
                       /\ companies_select_policy(r, d)
                       /\ companies_update_policy_using(r, d)}

CanSeeForDelete(key, d) ==
    {r \in companies : /\ r.tenant_id = key
                       /\ companies_select_policy(r, d)
                       /\ companies_delete_policy(r, d)}

\* UPDATE companies SET (<tenant column>, name) = row WHERE <tenant column> = key:
\* refused when the new row fails WITH CHECK or its key is taken.
Update(key, row) ==
    /\ IF CanSeeForUpdate(key, dbsession) = {}
       THEN /\ companies' = companies
            /\ stmt' = [cmd |-> "UPDATE", old |-> {}, new |-> {}, error |-> FALSE]
       ELSE IF /\ companies_update_policy_check(row, dbsession)
               /\ \A r \in companies \ CanSeeForUpdate(key, dbsession) :
                     r.tenant_id # row.tenant_id
            THEN /\ companies' = (companies \ CanSeeForUpdate(key, dbsession)) \cup {row}
                 /\ stmt' = [cmd |-> "UPDATE", old |-> CanSeeForUpdate(key, dbsession),
                             new |-> {row}, error |-> FALSE]
            ELSE /\ companies' = companies
                 /\ stmt' = [cmd |-> "UPDATE", old |-> {}, new |-> {}, error |-> TRUE]
    /\ UNCHANGED dbsession
    /\ UNCHANGED <<sessVars, authVars, onbVars, appVars>>

\* DELETE FROM companies WHERE <tenant column> = key
Delete(key) ==
    /\ companies' = companies \ CanSeeForDelete(key, dbsession)
    /\ stmt' = [cmd |-> "DELETE", old |-> CanSeeForDelete(key, dbsession),
                new |-> {}, error |-> FALSE]
    /\ UNCHANGED dbsession
    /\ UNCHANGED <<sessVars, authVars, onbVars, appVars>>

NextRLS ==
    \/ \E su \in {"on", "off"}, t \in Tenants \cup {Unset} : Connect(su, t)
    \/ Select
    \/ \E row \in CompanyRows : Insert(row)
    \/ \E key \in Tenants, row \in CompanyRows : Update(key, row)
    \/ \E key \in Tenants : Delete(key)

(***************************************************************************)
(* Part 3: AuthMiddleware.dispatch                                         *)
(*                                                                         *)
(* Text is a sequence of characters, so that startswith, split and lower   *)
(* are computed as Python computes them.  A token's text stands in a       *)
(* header as one symbol, the token's name: it holds no whitespace.         *)
(***************************************************************************)

\* The request paths considered.
Paths ==
    { <<"/", "h", "e", "a", "l", "t", "h">>,
      <<"/", "h", "e", "a", "l", "t", "h", "z">>,
      <<"/", "d", "o", "c", "s">>,
      <<"/", "o", "p", "e", "n", "a", "p", "i", ".", "j", "s", "o", "n">>,
      <<"/", "r", "e", "d", "o", "c">>,
      <<"/", "o", "n", "b", "o", "a", "r", "d", "i", "n", "g", "/", "r", "e", "g", "i", "s", "t", "e", "r", "-", "c", "o", "m", "p", "a", "n", "y">>,
      <<"/", "p", "u", "b", "l", "i", "c", "/", "i", "n", "f", "o">>,
      <<"/", "p", "u", "b", "l", "i", "c", "i", "t", "y">>,
      <<"/">>,
      <<"/", "e", "x", "a", "m", "p", "l", "e", "/", "m", "y", "-", "c", "o", "m", "p", "a", "n", "y">>,
      <<"/", "a", "p", "i", "/", "h", "e", "a", "l", "t", "h">>,
      <<"/", "H", "e", "a", "l", "t", "h">> }

\* Authorization headers.get("Authorization") returns None for.
NoHeader == <<NoneVal>>

\* The Authorization header values considered.
Headers ==
    { NoHeader,
      <<"B", "e", "a", "r", "e", "r", " ", "tok_tA">>,
      <<"B", "e", "a", "r", "e", "r", " ", "tok_tB">>,
      <<"B", "e", "a", "r", "e", "r", " ", "tok_notenant">>,
      <<"B", "e", "a", "r", "e", "r", " ", "tok_emptytenant">>,
      <<"B", "e", "a", "r", "e", "r", " ", "tok_invalid">>,
      <<"B", "e", "a", "r", "e", "r", " ", "tok_expired">>,
      <<"B", "e", "a", "r", "e", "r", " ", "tok_error">>,
      <<"B", "e", "a", "r", "e", "r", " ", "tok_error2">>,
      <<"b", "e", "a", "r", "e", "r", " ", "tok_tA">>,
      <<"B", "E", "A", "R", "E", "R", " ", "tok_tB">>,
      <<"B", "e", "a", "r", "e", "r", " ", " ", "tok_tA">>,
      <<" ", "B", "e", "a", "r", "e", "r", "\t", "tok_tA", " ">>,
      <<"B", "e", "a", "r", "e", "r">>,
      <<"tok_tA">>,
      <<"B", "e", "a", "r", "e", "r", " ", "tok_tA", " ", "x">>,
      <<"B", "a", "s", "i", "c", " ", "tok_tA">>,
      <<" ">>,
      <<>> }

\* What auth.verify_id_token does with each token.
Tokens == {"tok_tA", "tok_tB", "tok_notenant", "tok_emptytenant",
           "tok_invalid", "tok_expired", "tok_error", "tok_error2"}

\* request.state attribute that was never assigned.
Absent == "<absent>"


\* str.startswith
StartsWith(t, prefix) ==
    Len(prefix) <= Len(t) /\ SubSeq(t, 1, Len(prefix)) = prefix

\* excluded_paths, as dispatch builds it for a request.
ExcludedPaths(path) ==
    { <<"/", "h", "e", "a", "l", "t", "h">>,
      <<"/", "d", "o", "c", "s">>,
      <<"/", "o", "p", "e", "n", "a", "p", "i", ".", "j", "s", "o", "n">>,
      <<"/", "r", "e", "d", "o", "c">>,
      <<"/", "o", "n", "b", "o", "a", "r", "d", "i", "n", "g">> }
    \cup (IF StartsWith(path, <<"/", "p", "u", "b", "l", "i", "c">>) THEN {path} ELSE {})

\* any(request.url.path.startswith(path) for path in excluded_paths)
IsExempt(path) == \E x \in ExcludedPaths(path) : StartsWith(path, x)

Whitespace == {" ", "\t"}

\* str.split(): the maximal runs of characters that are not whitespace.
RECURSIVE SplitFrom(_, _, _)
SplitFrom(t, i, word) ==
    IF i > Len(t)
    THEN IF word = <<>> THEN <<>> ELSE <<word>>
    ELSE IF t[i] \in Whitespace
         THEN (IF word = <<>> THEN <<>> ELSE <<word>>) \o SplitFrom(t, i + 1, <<>>)
         ELSE SplitFrom(t, i + 1, Append(word, t[i]))

Split(t) == SplitFrom(t, 1, <<>>)

LowerChar(c) ==
    CASE c = "A" -> "a"
      [] c = "B" -> "b"
      [] c = "C" -> "c"
      [] c = "D" -> "d"
      [] c = "E" -> "e"
      [] c = "F" -> "f"
      [] c = "G" -> "g"
      [] c = "H" -> "h"
      [] c = "I" -> "i"
      [] c = "J" -> "j"
      [] c = "K" -> "k"
      [] c = "L" -> "l"
      [] c = "M" -> "m"
      [] c = "N" -> "n"
      [] c = "O" -> "o"
      [] c = "P" -> "p"
      [] c = "Q" -> "q"
      [] c = "R" -> "r"
      [] c = "S" -> "s"
      [] c = "T" -> "t"
      [] c = "U" -> "u"
      [] c = "V" -> "v"
      [] c = "W" -> "w"
      [] c = "X" -> "x"
      [] c = "Y" -> "y"
      [] c = "Z" -> "z"
      [] OTHER -> c

\* str.lower()
Lower(t) == [i \in DOMAIN t |-> LowerChar(t[i])]

\* auth.verify_id_token(token): the decoded claims, or the exception raised.
VerifyIdToken(token) ==
    CASE token = <<"tok_tA">> ->
            [kind |-> "claims", message |-> "", uid |-> "u1", email |-> "a@tA", has_firebase |-> TRUE, tenant |-> "tA"]
      [] token = <<"tok_tB">> ->
            [kind |-> "claims", message |-> "", uid |-> "u2", email |-> "b@tB", has_firebase |-> TRUE, tenant |-> "tB"]
      [] token = <<"tok_notenant">> ->
            [kind |-> "claims", message |-> "", uid |-> "u3", email |-> "c@none", has_firebase |-> FALSE, tenant |-> NoneVal]
      [] token = <<"tok_emptytenant">> ->
            [kind |-> "claims", message |-> "", uid |-> "u4", email |-> "d@empty", has_firebase |-> TRUE, tenant |-> ""]
      [] token = <<"tok_expired">> ->
            [kind |-> "ExpiredIdTokenError", message |-> "Token expired", uid |-> NoneVal, email |-> NoneVal, has_firebase |-> FALSE, tenant |-> NoneVal]
      [] token = <<"tok_error">> ->
            [kind |-> "Exception", message |-> "certificate fetch failed", uid |-> NoneVal, email |-> NoneVal, has_firebase |-> FALSE, tenant |-> NoneVal]
      [] token = <<"tok_error2">> ->
            [kind |-> "Exception", message |-> "project id is required", uid |-> NoneVal, email |-> NoneVal, has_firebase |-> FALSE, tenant |-> NoneVal]
      [] OTHER ->
            [kind |-> "InvalidIdTokenError", message |-> "Invalid token", uid |-> NoneVal, email |-> NoneVal, has_firebase |-> FALSE, tenant |-> NoneVal]

\* decoded_token.get("firebase", {}).get("tenant")
TenantClaim(decoded) == IF decoded.has_firebase THEN decoded.tenant ELSE NoneVal

EmptyState == [tenant_id |-> Absent, user_id |-> Absent, user_email |-> Absent, decoded_token |-> Absent]

\* What dispatch did before it returned or called call_next.
Outcome(hr, vc, fwd, status, detail, st) ==
    [header_reads |-> hr, verify_calls |-> vc, forward |-> fwd,
     status |-> status, detail |-> detail, state |-> st]

Rejected(hr, vc, status, detail) == Outcome(hr, vc, FALSE, status, detail, EmptyState)

OnInvalidTokenAsForbidden(decoded) ==
    Rejected(1, 1, 403, "Token de autenticacion invalido")
\* except auth.InvalidIdTokenError as e
OnInvalidToken(decoded) ==
    Rejected(1, 1, 401, "Token de autenticacion invalido")

OnExpiredTokenAsError(decoded) ==
    Rejected(1, 1, 500, "Token de autenticacion expirado")
\* except auth.ExpiredIdTokenError
OnExpiredToken(decoded) ==
    Rejected(1, 1, 401, "Token de autenticacion expirado")

OnVerifierErrorLeaks(decoded) ==
    Rejected(1, 1, 500, decoded.message)
\* except Exception as e: the error's text goes to the log, not to the body.
OnVerifierError(decoded) ==
    Rejected(1, 1, 500, "Error interno al verificar autenticacion")

BindStateNothing(decoded, token) == EmptyState
\* request.state.tenant_id = tenant_id, and the three assignments after it.
BindState(decoded, token) ==
    [tenant_id |-> TenantClaim(decoded), user_id |-> decoded.uid,
     user_email |-> decoded.email, decoded_token |-> token[1]]

OnNoTenantAfterBinding(decoded, token) ==
    Outcome(1, 1, FALSE, 403, "Token no asociado a un tenant", BindState(decoded, token))
\* `if not tenant_id: return JSONResponse(403)` stands before the assignments
\* to request.state.
OnNoTenant(decoded, token) ==
    Rejected(1, 1, 403, "Token no asociado a un tenant")

\* try: decoded_token = auth.verify_id_token(token) ... except ...
VerifyAndBind(token) ==
    LET decoded == VerifyIdToken(token) IN
    CASE decoded.kind = "InvalidIdTokenError" -> OnInvalidToken(decoded)
      [] decoded.kind = "ExpiredIdTokenError" -> OnExpiredToken(decoded)
      [] decoded.kind = "Exception" -> OnVerifierError(decoded)
      [] OTHER ->
            IF Falsy(TenantClaim(decoded))
            THEN OnNoTenant(decoded, token)
            ELSE Outcome(1, 1, TRUE, 0, "", BindState(decoded, token))

AuthenticateAnyScheme(authorization) ==
    IF authorization = NoHeader \/ authorization = <<>>
    THEN Rejected(1, 0, 401, "Token de autenticacion no proporcionado")
    ELSE LET parts == Split(authorization) IN
         IF Len(parts) # 2
         THEN Rejected(1, 0, 401, "Formato de token invalido. Use: Bearer <token>")
         ELSE VerifyAndBind(parts[2])
\* dispatch from `authorization = request.headers.get("Authorization")` on.
Authenticate(authorization) ==
    IF authorization = NoHeader \/ authorization = <<>>
    THEN Rejected(1, 0, 401, "Token de autenticacion no proporcionado")
    ELSE LET parts == Split(authorization) IN
         IF Len(parts) # 2 \/ Lower(parts[1]) # <<"b", "e", "a", "r", "e", "r">>
         THEN Rejected(1, 0, 401, "Formato de token invalido. Use: Bearer <token>")
         ELSE VerifyAndBind(parts[2])

dispatch_always_authenticates(path, authorization) == Authenticate(authorization)
\* AuthMiddleware.dispatch up to its return or its call of call_next.
dispatch(path, authorization) ==
    IF IsExempt(path)
    THEN Outcome(0, 0, TRUE, 0, "", EmptyState)
    ELSE Authenticate(authorization)

NoResponse == [status |-> 0, detail |-> "", by |-> "none"]

AfterCallNextGuarded(r) ==
    IF r.by = "exception"
    THEN [status |-> 500, detail |-> "Error interno al verificar autenticacion", by |-> "middleware"]
    ELSE r
\* `return await call_next(request)`: both calls stand outside the try block,
\* so what the handler returned or raised is what dispatch returns or raises.
AfterCallNext(r) == r

InitAuth ==
    /\ phase = "idle"
    /\ request = [path |-> <<"/">>, authorization |-> NoHeader]
    /\ state = EmptyState
    /\ header_reads = 0
    /\ verify_calls = 0
    /\ forwards = 0
    /\ handled = NoResponse
    /\ response = NoResponse

\* A request arrives and dispatch runs until it returns a JSONResponse or
\* awaits call_next(request).
Dispatch(path, authorization) ==
    LET o == dispatch(path, authorization) IN
    /\ phase \in {"idle", "done"}
    /\ request' = [path |-> path, authorization |-> authorization]
    /\ state' = o.state
    /\ header_reads' = o.header_reads
    /\ verify_calls' = o.verify_calls
    /\ forwards' = IF o.forward THEN 1 ELSE 0
    /\ phase' = IF o.forward THEN "handler" ELSE "done"
    /\ handled' = NoResponse
    /\ response' = IF o.forward THEN NoResponse
                   ELSE [status |-> o.status, detail |-> o.detail, by |-> "middleware"]
    /\ UNCHANGED <<sessVars, rlsVars, onbVars, appVars>>

\* call_next(request) returns the handler's response: dispatch returns it.
HandlerReturns(status) ==
    /\ phase = "handler"
    /\ phase' = "done"
    /\ handled' = [status |-> status, detail |-> "", by |-> "handler"]
    /\ response' = AfterCallNext(handled')
    /\ UNCHANGED <<request, state, header_reads, verify_calls, forwards>>
    /\ UNCHANGED <<sessVars, rlsVars, onbVars, appVars>>

\* call_next(request) raises: the exception leaves dispatch.
HandlerRaises ==
    /\ phase = "handler"
    /\ phase' = "done"
    /\ handled' = [status |-> 0, detail |-> "HandlerError", by |-> "exception"]
    /\ response' = AfterCallNext(handled')
    /\ UNCHANGED <<request, state, header_reads, verify_calls, forwards>>
    /\ UNCHANGED <<sessVars, rlsVars, onbVars, appVars>>

\* The statuses a handler answers with, the middleware's own among them.
HandlerStatuses == {200, 401, 404, 500}

NextAuth ==
    \/ \E path \in Paths, authorization \in Headers : Dispatch(path, authorization)
    \/ \E status \in HandlerStatuses : HandlerReturns(status)
    \/ HandlerRaises

(***************************************************************************)
(* Concurrent requests: dispatch, then the handler's get_db_with_tenant     *)
(*                                                                         *)
(* Request s is served by unit s of Part 1.  dispatch runs without          *)
(* suspending up to call_next; the dependency then builds the manager and  *)
(* enters its session, whose awaits interleave with the other request's.   *)
(***************************************************************************)

get_tenant_id_of_any(rs, s) ==
    LET others == {r \in DOMAIN rs : r # s /\ rs[r].pc = "handler"} IN
    IF others = {} THEN NoneVal ELSE rs[CHOOSE r \in others : TRUE].state.tenant_id
\* dependencies.get_tenant_id: getattr(request.state, "tenant_id", None) of
\* the request the dependency is resolved for.
get_tenant_id(rs, s) ==
    IF rs[s].state.tenant_id = Absent THEN NoneVal ELSE rs[s].state.tenant_id

\* A request arrives and dispatch answers it or forwards it to its handler.
RequestDispatch(s, path, authorization) ==
    LET o == dispatch(path, authorization) IN
    /\ reqs[s].pc = "none"
    /\ reqs' = [reqs EXCEPT ![s] =
                   [pc |-> IF o.forward THEN "handler" ELSE "rejected",
                    path |-> path, authorization |-> authorization, state |-> o.state]]
    /\ UNCHANGED <<pc, use, tenant_id, session, ip, body, raised, result, calls, pool>>
    /\ UNCHANGED <<rlsVars, authVars, onbVars, appVars>>

\* The handler's dependency: get_db_with_tenant(tenant_id=Depends(get_tenant_id))
\* checks the tenant id, builds SessionManager(tenant_id) and enters get_session.
GetDbWithTenant(s) ==
    /\ reqs[s].pc = "handler"
    /\ Enter(s, "get_db_with_tenant", get_tenant_id(reqs, s))

NextRequests ==
    \E s \in Units :
        \/ \E path \in {<<"/", "h", "e", "a", "l", "t", "h">>, <<"/">>},
              authorization \in {NoHeader,
                                 <<"B", "e", "a", "r", "e", "r", " ", "tok_tA">>,
                                 <<"B", "e", "a", "r", "e", "r", " ", "tok_tB">>,
                                 <<"B", "e", "a", "r", "e", "r", " ", "tok_notenant">>} :
              RequestDispatch(s, path, authorization)
        \/ GetDbWithTenant(s)
        \/ SetTenant(s)
        \/ BodyExecute(s)
        \/ BodyReturn(s)
        \/ BodyRaise(s)
        \/ BodyCancel(s)
        \/ Commit(s)
        \/ Rollback(s)
        \/ Reset(s)
        \/ Close(s)

(***************************************************************************)
(* Part 4: routers.onboarding.register_company                             *)
(*                                                                         *)
(* Three steps - create the external tenant, insert the company row in a   *)
(* session bound to that tenant, create the admin user - each in its own   *)
(* try block whose except block undoes the earlier steps.                  *)
(***************************************************************************)

\* Calls of register_company considered.
MaxCalls == 2

\* The ids the identity provider gives to the tenants it creates, in order.
ProviderIds == <<"tA", "tB", "tC">>

\* The uids the identity provider gives to the users it creates, in order.
ProviderUids == <<"uid1", "uid2", "uid3">>

\* str(e) of the identity provider's errors.
Messages == {"quota exceeded", "deadline exceeded"}

NoExc == "none"

\* No session is open.
NoSession == [pc |-> "none", raised |-> NoExc, pending |-> "none"]

\* tenant_id = None, admin_user_id = None; company_id is not yet assigned.
NoLocals ==
    [company_name |-> "", tenant_id |-> NoneVal, company_id |-> Absent,
     admin_user_id |-> NoneVal, failed |-> "none", e |-> NoExc]

NoOutcome ==
    [status |-> 0, detail |-> <<>>, tenant_id |-> NoneVal,
     company_id |-> NoneVal, admin_user_id |-> NoneVal]

\* raise HTTPException(status_code=..., detail=f"{prefix}{str(e)}")
HTTPException(status, prefix, text) ==
    [status |-> status, detail |-> <<prefix, text>>, tenant_id |-> NoneVal,
     company_id |-> NoneVal, admin_user_id |-> NoneVal]

OnboardingResponseNoCompany(t, c, a) ==
    [status |-> 201,
     detail |-> <<"Empresa y usuario administrador creados exitosamente">>,
     tenant_id |-> t, company_id |-> NoneVal, admin_user_id |-> a]
\* return OnboardingResponse(...), answered with status 201.
OnboardingResponse(t, c, a) ==
    [status |-> 201,
     detail |-> <<"Empresa y usuario administrador creados exitosamente">>,
     tenant_id |-> t, company_id |-> c, admin_user_id |-> a]

AfterCreateTenantGoesOn(ok) == "insert_company"
\* Step 1: the except block raises, so step 2 is reached only on success.
AfterCreateTenant(ok) == IF ok THEN "insert_company" ELSE "done"

NeverDeleteTenant(t) == FALSE
\* `if tenant_id:` before the compensating auth.delete_tenant.
ShouldDeleteTenant(t) == ~Falsy(t)

UndoBodyLeavesRow(found) == "return"
\* `if company:` after scalar_one_or_none.
UndoBody(found) == IF found THEN "delete" ELSE "return"

AfterInsertSessionIgnoresError(exc) == "create_user"
\* Step 2's try: step 3 follows when the `async with` was left without an
\* exception, the except block otherwise.
AfterInsertSession(exc) == IF exc = NoExc THEN "create_user" ELSE "except"

AfterCompensationPropagates(e, rollback_error) ==
    IF rollback_error = NoExc THEN e ELSE rollback_error
\* The compensation's own exception is caught and logged; the HTTPException
\* raised after it carries str(e) of the step's exception.
AfterCompensation(e, rollback_error) == e

UnexpectedDetailLeaks(e) == <<"Error inesperado durante el proceso de onboarding", e>>
\* detail="Error inesperado durante el proceso de onboarding"
UnexpectedDetail(e) == <<"Error inesperado durante el proceso de onboarding">>

\* What a failed auth.delete_tenant raises.
DeleteTenantError(ok) == IF ok THEN NoExc ELSE "DeleteTenantError"

\* The rows a session bound to tenant t sees of the given table.
Visible(rows, t) == {r \in rows : r.tenant_id = t}

\* auth.delete_tenant(tenant_id) at the provider.
DeleteTenant(p, t, ok) == IF ok THEN [p EXCEPT !.tenants = @ \ {t}] ELSE p

PersistUniqueName(rows, pending, row) ==
    CASE pending = "insert" ->
            IF \E r \in rows : r.name = row.name THEN rows ELSE rows \cup {row}
      [] pending = "delete" -> {r \in rows : r.tenant_id # row.tenant_id}
      [] OTHER -> rows
\* A commit makes the session's pending write durable.
Persist(rows, pending, row) ==
    CASE pending = "insert" -> rows \cup {row}
      [] pending = "delete" -> {r \in rows : r.tenant_id # row.tenant_id}
      [] OTHER -> rows

\* The row register_company builds: Company(tenant_id=tenant_id, name=...).
NewCompany(l) == [tenant_id |-> l.tenant_id, name |-> l.company_name]

Log(by, op, ok, arg) == Append(trace, Ev(by, op, ok, 0, arg))

InitOnboarding ==
    /\ step = "idle"
    /\ locals = NoLocals
    /\ db = NoSession
    /\ trace = <<>>
    /\ provider = [tenants |-> {}, users |-> {}]
    /\ committed = {}
    /\ outcome = NoOutcome
    /\ history = <<>>
    /\ ncalls = 0

\* A client posts to /onboarding/register-company.
RegisterCompany(name) ==
    /\ step \in {"idle", "done"}
    /\ ncalls < MaxCalls
    /\ ncalls' = ncalls + 1
    /\ step' = "create_tenant"
    /\ locals' = [NoLocals EXCEPT !.company_name = name]
    /\ db' = NoSession
    /\ trace' = <<>>
    /\ outcome' = NoOutcome
    /\ history' = IF step = "done" THEN Append(history, outcome) ELSE history
    /\ UNCHANGED <<provider, committed>>
    /\ UNCHANGED <<sessVars, rlsVars, authVars, appVars>>

\* Step 1: auth.create_tenant, and its except block.
CreateTenant(ok, m) ==
    /\ step = "create_tenant"
    /\ step' = AfterCreateTenant(ok)
    /\ IF ok
       THEN /\ locals' = [locals EXCEPT !.tenant_id = ProviderIds[ncalls]]
            /\ provider' = [provider EXCEPT !.tenants = @ \cup {ProviderIds[ncalls]}]
            /\ trace' = Log("register_company", "create_tenant", TRUE, ProviderIds[ncalls])
            /\ outcome' = outcome
       ELSE /\ locals' = [locals EXCEPT !.failed = "step1", !.e = m]
            /\ provider' = provider
            /\ trace' = Log("register_company", "create_tenant", FALSE, m)
            /\ outcome' = HTTPException(500, "Error al crear tenant en Identity Platform: ", m)
    /\ UNCHANGED <<db, committed, history, ncalls>>
    /\ UNCHANGED <<sessVars, rlsVars, authVars, appVars>>

\* `async with SessionManager(tenant_id=tenant_id).get_session() as db`: the
\* manager's check, AsyncSessionLocal() and the SET LOCAL statement.
SessionEnter(ok) ==
    /\ step \in {"insert_company", "undo_company"}
    /\ db.pc = "none"
    /\ IF ManagerRejects(locals.tenant_id)
       THEN /\ db' = [pc |-> "closed", raised |-> "ValueError", pending |-> "none"]
            /\ trace' = trace
       ELSE /\ db' = [pc |-> IF ok THEN "body" ELSE "close",
                      raised |-> IF ok THEN NoExc ELSE "SetError",
                      pending |-> "none"]
            /\ trace' = Append(Log("manager", "open", TRUE, locals.tenant_id),
                               Ev("manager", "set", ok, 0, SetTenantParams(locals.tenant_id)))
    /\ UNCHANGED <<step, locals, provider, committed, outcome, history, ncalls>>
    /\ UNCHANGED <<sessVars, rlsVars, authVars, appVars>>

\* Step 2's body: Company(...), db.add, await db.flush(), company_id = ...
InsertFlush(ok) ==
    /\ step = "insert_company"
    /\ db.pc = "body"
    /\ trace' = Log("body", "flush", ok, locals.tenant_id)
    /\ IF ok
       THEN /\ db' = [db EXCEPT !.pc = OnBodyReturn, !.pending = "insert"]
            /\ locals' = [locals EXCEPT !.company_id = locals.tenant_id]
       ELSE /\ db' = [db EXCEPT !.pc = "rollback", !.raised = "StmtError"]
            /\ locals' = locals
    /\ UNCHANGED <<step, provider, committed, outcome, history, ncalls>>
    /\ UNCHANGED <<sessVars, rlsVars, authVars, appVars>>

\* The compensation's body: select the tenant's row, scalar_one_or_none.
UndoSelect(ok) ==
    /\ step = "undo_company"
    /\ db.pc = "body"
    /\ trace' = Log("body", "select", ok, locals.tenant_id)
    /\ IF ok
       THEN db' = [db EXCEPT !.pc =
                      IF UndoBody(Visible(committed, locals.tenant_id) # {}) = "delete"
                      THEN "body_delete" ELSE OnBodyReturn]
       ELSE db' = [db EXCEPT !.pc = "rollback", !.raised = "StmtError"]
    /\ UNCHANGED <<step, locals, provider, committed, outcome, history, ncalls>>
    /\ UNCHANGED <<sessVars, rlsVars, authVars, appVars>>

\* The compensation's body: await db.delete(company); await db.commit().
UndoDeleteCommit(delete_ok, commit_ok) ==
    /\ step = "undo_company"
    /\ db.pc = "body_delete"
    /\ trace' = IF delete_ok
                THEN Append(Log("body", "delete", TRUE, locals.tenant_id),
                            Ev("body", "commit", commit_ok, 0, locals.tenant_id))
                ELSE Log("body", "delete", FALSE, locals.tenant_id)
    /\ IF delete_ok /\ commit_ok
       THEN /\ committed' = Persist(committed, "delete", NewCompany(locals))
            /\ db' = [db EXCEPT !.pc = OnBodyReturn]
       ELSE /\ committed' = committed
            /\ db' = [db EXCEPT !.pc = "rollback",
                                !.raised = IF delete_ok THEN "CommitError" ELSE "StmtError"]
    /\ UNCHANGED <<step, locals, provider, outcome, history, ncalls>>
    /\ UNCHANGED <<sessVars, rlsVars, authVars, appVars>>

\* The manager after the body returned: await session.commit().
SessionCommit(ok) ==
    /\ step \in {"insert_company", "undo_company"}
    /\ db.pc = "commit"
    /\ trace' = Log("manager", "commit", ok, locals.tenant_id)
    /\ committed' = IF ok THEN Persist(committed, db.pending, NewCompany(locals)) ELSE committed
    /\ db' = [pc |-> AfterCommit(ok),
              raised |-> IF ok THEN db.raised ELSE "CommitError",
              pending |-> IF ok THEN "none" ELSE db.pending]
    /\ UNCHANGED <<step, locals, provider, outcome, history, ncalls>>
    /\ UNCHANGED <<sessVars, rlsVars, authVars, appVars>>

\* except Exception: await session.rollback(); raise
SessionRollback(ok) ==
    /\ step \in {"insert_company", "undo_company"}
    /\ db.pc = "rollback"
    /\ trace' = Log("manager", "rollback", ok, locals.tenant_id)
    /\ db' = [pc |-> "reset", raised |-> Reraise(db.raised, ok), pending |-> "none"]
    /\ UNCHANGED <<step, locals, provider, committed, outcome, history, ncalls>>
    /\ UNCHANGED <<sessVars, rlsVars, authVars, appVars>>

\* finally: await session.execute(RESET)
SessionReset(ok) ==
    /\ step \in {"insert_company", "undo_company"}
    /\ db.pc = "reset"
    /\ trace' = Log("manager", "reset", ok, locals.tenant_id)
    /\ db' = [db EXCEPT !.pc = "close", !.raised = AfterReset(db.raised, ok)]
    /\ UNCHANGED <<step, locals, provider, committed, outcome, history, ncalls>>
    /\ UNCHANGED <<sessVars, rlsVars, authVars, appVars>>

\* The exit of `async with AsyncSessionLocal() as session`: what was not
\* committed is gone, and the exception in flight reaches register_company.
SessionClose ==
    /\ step \in {"insert_company", "undo_company"}
    /\ db.pc = "close"
    /\ trace' = Log("manager", "close", TRUE, locals.tenant_id)
    /\ db' = [db EXCEPT !.pc = "closed", !.pending = "none"]
    /\ UNCHANGED <<step, locals, provider, committed, outcome, history, ncalls>>
    /\ UNCHANGED <<sessVars, rlsVars, authVars, appVars>>

\* Step 2's except block: delete the tenant just created, whatever that
\* gives, and raise the step's HTTPException.
InsertFailed(ok) ==
    /\ step = "insert_company"
    /\ db.pc = "closed"
    /\ AfterInsertSession(db.raised) = "except"
    /\ IF ShouldDeleteTenant(locals.tenant_id)
       THEN /\ trace' = Log("register_company", "delete_tenant", ok, locals.tenant_id)
            /\ provider' = DeleteTenant(provider, locals.tenant_id, ok)
            /\ outcome' = HTTPException(500, "Error al crear empresa en base de datos: ",
                                        AfterCompensation(db.raised, DeleteTenantError(ok)))
       ELSE /\ trace' = trace
            /\ provider' = provider
            /\ outcome' = HTTPException(500, "Error al crear empresa en base de datos: ", db.raised)
    /\ locals' = [locals EXCEPT !.failed = "step2", !.e = db.raised]
    /\ step' = "done"
    /\ db' = NoSession
    /\ UNCHANGED <<committed, history, ncalls>>
    /\ UNCHANGED <<sessVars, rlsVars, authVars, appVars>>

\* Step 3, reached when step 2's session was left without an exception:
\* auth.create_user and admin_user_id = admin_user.uid, or the except block's
\* first lines.
CreateUser(ok, m) ==
    /\ step = "insert_company"
    /\ db.pc = "closed"
    /\ AfterInsertSession(db.raised) = "create_user"
    /\ db' = NoSession
    /\ IF ok
       THEN /\ trace' = Log("register_company", "create_user", TRUE, locals.tenant_id)
            /\ provider' = [provider EXCEPT !.users = @ \cup
                               {[uid |-> ProviderUids[ncalls], tenant_id |-> locals.tenant_id]}]
            /\ locals' = [locals EXCEPT !.admin_user_id = ProviderUids[ncalls]]
            /\ outcome' = outcome
            /\ step' = "respond"
       ELSE /\ trace' = Log("register_company", "create_user", FALSE, m)
            /\ provider' = provider
            /\ locals' = [locals EXCEPT !.failed = "step3", !.e = m]
            /\ IF ShouldDeleteTenant(locals.tenant_id)
               THEN /\ outcome' = outcome
                    /\ step' = "undo_company"
               ELSE /\ outcome' = HTTPException(500, "Error al crear usuario administrador: ", m)
                    /\ step' = "done"
    /\ UNCHANGED <<committed, history, ncalls>>
    /\ UNCHANGED <<sessVars, rlsVars, authVars, appVars>>

\* The three steps went through: return OnboardingResponse(...).
Respond ==
    /\ step = "respond"
    /\ outcome' = OnboardingResponse(locals.tenant_id, locals.company_id, locals.admin_user_id)
    /\ step' = "done"
    /\ UNCHANGED <<locals, db, trace, provider, committed, history, ncalls>>
    /\ UNCHANGED <<sessVars, rlsVars, authVars, appVars>>

\* The compensation after its session was left without an exception:
\* auth.delete_tenant, then step 3's HTTPException.
UndoCompleted(ok) ==
    /\ step = "undo_company"
    /\ db.pc = "closed"
    /\ db.raised = NoExc
    /\ trace' = Log("register_company", "delete_tenant", ok, locals.tenant_id)
    /\ provider' = DeleteTenant(provider, locals.tenant_id, ok)
    /\ outcome' = HTTPException(500, "Error al crear usuario administrador: ",
                                AfterCompensation(locals.e, DeleteTenantError(ok)))
    /\ step' = "done"
    /\ db' = NoSession
    /\ UNCHANGED <<locals, committed, history, ncalls>>
    /\ UNCHANGED <<sessVars, rlsVars, authVars, appVars>>

\* The compensation's session raised: `except Exception as rollback_error`
\* logs it, auth.delete_tenant is skipped, step 3's HTTPException is raised.
UndoFailed ==
    /\ step = "undo_company"
    /\ db.pc = "closed"
    /\ db.raised # NoExc
    /\ outcome' = HTTPException(500, "Error al crear usuario administrador: ",
                                AfterCompensation(locals.e, db.raised))
    /\ step' = "done"
    /\ db' = NoSession
    /\ UNCHANGED <<locals, trace, provider, committed, history, ncalls>>
    /\ UNCHANGED <<sessVars, rlsVars, authVars, appVars>>

\* A statement outside the three inner try blocks raises (the log calls of
\* lines 53, 68 and 104, the construction of the response): the outer
\* `except Exception` deletes the tenant, if one was created, ignores what
\* that gives, and raises the generic HTTPException.
Unexpected(ok, m) ==
    /\ \/ step = "create_tenant"
       \/ step = "insert_company" /\ db.pc = "none"
       \/ step = "insert_company" /\ db.pc = "closed" /\ AfterInsertSession(db.raised) = "create_user"
       \/ step = "respond"
    /\ IF ShouldDeleteTenant(locals.tenant_id)
       THEN /\ trace' = Log("register_company", "delete_tenant", ok, locals.tenant_id)
            /\ provider' = DeleteTenant(provider, locals.tenant_id, ok)
       ELSE /\ trace' = trace
            /\ provider' = provider
    /\ locals' = [locals EXCEPT !.failed = "unexpected", !.e = m]
    /\ outcome' = [HTTPException(500, "", "") EXCEPT !.detail = UnexpectedDetail(m)]
    /\ step' = "done"
    /\ db' = NoSession
    /\ UNCHANGED <<committed, history, ncalls>>
    /\ UNCHANGED <<sessVars, rlsVars, authVars, appVars>>

NextOnboarding ==
    \/ \E name \in CompanyNames : RegisterCompany(name)
    \/ \E ok \in BOOLEAN, m \in Messages : CreateTenant(ok, m)
    \/ \E ok \in BOOLEAN : SessionEnter(ok)
    \/ \E ok \in BOOLEAN : InsertFlush(ok)
    \/ \E ok \in BOOLEAN : UndoSelect(ok)
    \/ \E delete_ok, commit_ok \in BOOLEAN : UndoDeleteCommit(delete_ok, commit_ok)
    \/ \E ok \in BOOLEAN : SessionCommit(ok)
    \/ \E ok \in BOOLEAN : SessionRollback(ok)
    \/ \E ok \in BOOLEAN : SessionReset(ok)
    \/ SessionClose
    \/ \E ok \in BOOLEAN : InsertFailed(ok)
    \/ \E ok \in BOOLEAN, m \in Messages : CreateUser(ok, m)
    \/ Respond
    \/ \E ok \in BOOLEAN, m \in Messages : Unexpected(ok, m)
    \/ \E ok \in BOOLEAN : UndoCompleted(ok)
    \/ UndoFailed

(***************************************************************************)
(* Part 5: get_firebase_app and get_firebase_credentials_from_secret       *)
(*                                                                         *)
(* get_firebase_app is called by AuthMiddleware.__init__ and by the        *)
(* application's lifespan; it has no await, so one call ends before the    *)
(* next begins.                                                            *)
(***************************************************************************)

\* Calls of get_firebase_app considered.
MaxAppCalls == 3

\* Requests considered during the process's start.
MaxArrivals == 2

\* The settings get_firebase_app may find: the attributes can be reassigned
\* after Settings validated them, which is why both functions check again.
Configs ==
    [use_secret_manager : BOOLEAN,
     gcp_project_id : {NoneVal, "project"},
     firebase_credentials_secret_name : {NoneVal, "firebase-credentials"},
     firebase_credentials_path : {NoneVal, "/secrets/firebase.json"}]

\* What the secret store does with a request for the secret's latest version:
\* no client can be built, it denies, it has no such secret, it is
\* unreachable, or it returns a payload that is or is not JSON.
StoreOutcomes ==
    {"no_client", "PermissionDenied", "NotFound", "ServiceUnavailable", "bad_json", "payload"}

\* The object initialize_app returns when the n-th call of get_firebase_app
\* reaches it.
Apps == <<"app1", "app2", "app3", "app4">>

\* A call of the secret store, of credentials.Certificate or of
\* firebase_admin.initialize_app, made by the n-th call of get_firebase_app.
AppEv(n, op, exc) == [call |-> n, op |-> op, ok |-> exc = NoExc, raised |-> exc]

Raises(kind, text) == [kind |-> kind, text |-> text, steps |-> <<>>]

\* The class of the exception that leaves get_firebase_credentials_from_secret
\* when json.loads raises JSONDecodeError: the handler raises ValueError inside
\* the outer try, whose `except Exception` turns it into RuntimeError.
JSONDecodeErrorBecomes == "RuntimeError"

\* secret_manager.get_firebase_credentials_from_secret: the parsed credentials
\* or the exception raised, and the calls made on the way with what each raised.
get_firebase_credentials_from_secret(cfg, store) ==
    IF ~cfg.use_secret_manager
    THEN Raises("ValueError", <<"use_secret_manager esta deshabilitado">>)
    ELSE IF Falsy(cfg.gcp_project_id)
    THEN Raises("ValueError", <<"gcp_project_id no esta configurado">>)
    ELSE IF Falsy(cfg.firebase_credentials_secret_name)
    THEN Raises("ValueError", <<"firebase_credentials_secret_name no esta configurado">>)
    ELSE CASE store = "payload" ->
                 [kind |-> "dict", text |-> <<>>,
                  steps |-> <<<<"access_secret_version", NoExc>>, <<"json.loads", NoExc>>>>]
           [] store = "PermissionDenied" ->
                 [kind |-> "RuntimeError",
                  text |-> <<"No se tienen permisos para acceder a Secret Manager">>,
                  steps |-> <<<<"access_secret_version", "PermissionDenied">>>>]
           [] store = "NotFound" ->
                 [kind |-> "ValueError",
                  text |-> <<"Secreto no encontrado: ", cfg.firebase_credentials_secret_name>>,
                  steps |-> <<<<"access_secret_version", "NotFound">>>>]
           [] store = "bad_json" ->
                 \* The ValueError of line 59 is raised inside the try of
                 \* line 38 and caught by its `except Exception`.
                 [kind |-> JSONDecodeErrorBecomes,
                  text |-> <<"Error al comunicarse con Secret Manager: ",
                             "El secreto no contiene un JSON valido">>,
                  steps |-> <<<<"access_secret_version", NoExc>>,
                              <<"json.loads", "JSONDecodeError">>>>]
           [] store = "no_client" ->
                 [kind |-> "RuntimeError",
                  text |-> <<"Error al comunicarse con Secret Manager: ", "no credentials">>,
                  steps |-> <<>>]
           [] OTHER ->
                 [kind |-> "RuntimeError",
                  text |-> <<"Error al comunicarse con Secret Manager: ", "unavailable">>,
                  steps |-> <<<<"access_secret_version", "ServiceUnavailable">>>>]

\* except Exception as e: raise RuntimeError(f"Error al inicializar ...: {str(e)}")
WrapError(cause, text) ==
    [kind |-> "RuntimeError", cause |-> cause, value |-> NoneVal,
     text |-> <<"Error al inicializar Firebase Admin SDK: ">> \o text]

\* return _firebase_app
Returns(app) == [kind |-> "app", cause |-> NoExc, value |-> app, text |-> <<>>]

MemoizedNever(app) == FALSE
\* `if _firebase_app is None` is false: the stored app is returned at once.
Memoized(app) == app # NoneVal

AfterResolveTriesAgain(r) == IF r.kind = "dict" THEN "certificate" ELSE "secret"
\* Where get_firebase_app stands once get_firebase_credentials_from_secret has
\* returned or raised: the exception leaves the try block for its handler,
\* which raises to the caller.
AfterResolve(r) == IF r.kind = "dict" THEN "certificate" ELSE "idle"

AfterInitializeLocalOnly(stored, app) == stored
\* `global _firebase_app` makes the assignment of line 57 store the new app in
\* the module's variable.
AfterInitialize(stored, app) == app

NoCall == [pc |-> "boot", source |-> "none"]

Resting == [pc |-> "idle", source |-> "none"]

\* The call has returned or raised.
Finished == [pc |-> "returned", source |-> "none"]

NoSettings ==
    [use_secret_manager |-> TRUE, gcp_project_id |-> NoneVal,
     firebase_credentials_secret_name |-> NoneVal, firebase_credentials_path |-> NoneVal]

\* The calls of get_firebase_app that have begun and not yet returned or raised.
Running(f) == {n \in DOMAIN f : f[n].pc \in {"secret", "certificate", "initialize"}}

MayStartAnytime(running) == TRUE
\* get_firebase_app is a plain function without an await, called on the event
\* loop by AuthMiddleware.__init__ and by lifespan: a call begins only when no
\* other call is under way.
MayStart(running) == running = {}

InitApp ==
    /\ settings = NoSettings
    /\ firebase_app = NoneVal
    /\ fb = [n \in 1..MaxAppCalls |-> NoCall]
    /\ applog = <<>>
    /\ appresults = <<>>
    /\ napp = 0
    /\ arrivals = <<>>

\* The process starts: app.config.settings is built.
LoadSettings(cfg) ==
    /\ \A n \in DOMAIN fb : fb[n].pc = "boot"
    /\ settings' = cfg
    /\ fb' = [n \in DOMAIN fb |-> Resting]
    /\ UNCHANGED <<firebase_app, applog, appresults, napp, arrivals>>
    /\ UNCHANGED <<sessVars, rlsVars, authVars, onbVars>>

\* get_firebase_app is called: the stored app is returned, or credential
\* resolution begins with the secret store or with the file's path.
GetFirebaseApp ==
    LET n == napp + 1 IN
    /\ napp < MaxAppCalls
    /\ fb[n].pc = "idle"
    /\ MayStart(Running(fb))
    /\ napp' = n
    /\ IF Memoized(firebase_app)
       THEN /\ appresults' = Append(appresults, Returns(firebase_app))
            /\ fb' = [fb EXCEPT ![n] = Finished]
       ELSE IF settings.use_secret_manager
       THEN /\ appresults' = appresults
            /\ fb' = [fb EXCEPT ![n] = [pc |-> "secret", source |-> "none"]]
       ELSE IF Falsy(settings.firebase_credentials_path)
       THEN /\ appresults' = Append(appresults,
                                    WrapError("ValueError",
                                              <<"firebase_credentials_path no esta configurado">>))
            /\ fb' = [fb EXCEPT ![n] = Finished]
       ELSE /\ appresults' = appresults
            /\ fb' = [fb EXCEPT ![n] = [pc |-> "certificate", source |-> "path"]]
    /\ UNCHANGED <<settings, firebase_app, applog, arrivals>>
    /\ UNCHANGED <<sessVars, rlsVars, authVars, onbVars>>

\* credentials_dict = get_firebase_credentials_from_secret()
ResolveFromSecret(n, store) ==
    LET r == get_firebase_credentials_from_secret(settings, store) IN
    /\ fb[n].pc = "secret"
    /\ applog' = applog \o [i \in DOMAIN r.steps |-> AppEv(n, r.steps[i][1], r.steps[i][2])]
    /\ IF AfterResolve(r) = "certificate"
       THEN /\ fb' = [fb EXCEPT ![n] = [pc |-> "certificate", source |-> "dict"]]
            /\ appresults' = appresults
       ELSE IF AfterResolve(r) = "idle"
       THEN /\ fb' = [fb EXCEPT ![n] = Finished]
            /\ appresults' = Append(appresults, WrapError(r.kind, r.text))
       ELSE /\ fb' = fb
            /\ appresults' = appresults
    /\ UNCHANGED <<settings, firebase_app, napp, arrivals>>
    /\ UNCHANGED <<sessVars, rlsVars, authVars, onbVars>>

\* cred = credentials.Certificate(...): from the parsed secret, or from the
\* file, which it reads.
Certificate(n, ok) ==
    /\ fb[n].pc = "certificate"
    /\ applog' = Append(applog,
                        AppEv(n, IF fb[n].source = "path" THEN "read_file" ELSE "certificate",
                              IF ok THEN NoExc ELSE "ValueError"))
    /\ IF ok
       THEN /\ fb' = [fb EXCEPT ![n].pc = "initialize"]
            /\ appresults' = appresults
       ELSE /\ fb' = [fb EXCEPT ![n] = Finished]
            /\ appresults' = Append(appresults, WrapError("ValueError", <<"Invalid certificate">>))
    /\ UNCHANGED <<settings, firebase_app, napp, arrivals>>
    /\ UNCHANGED <<sessVars, rlsVars, authVars, onbVars>>

\* _firebase_app = firebase_admin.initialize_app(cred)
InitializeApp(n, ok) ==
    /\ fb[n].pc = "initialize"
    /\ applog' = Append(applog, AppEv(n, "initialize_app", IF ok THEN NoExc ELSE "ValueError"))
    /\ fb' = [fb EXCEPT ![n] = Finished]
    /\ IF ok
       THEN /\ firebase_app' = AfterInitialize(firebase_app, Apps[n])
            /\ appresults' = Append(appresults, Returns(Apps[n]))
       ELSE /\ firebase_app' = firebase_app
            /\ appresults' = Append(appresults,
                                    WrapError("ValueError", <<"initialize_app failed">>))
    /\ UNCHANGED <<settings, napp, arrivals>>
    /\ UNCHANGED <<sessVars, rlsVars, authVars, onbVars>>

\* A request reaches AuthMiddleware.dispatch, at any moment of the process's
\* life.  dispatch does not call get_firebase_app and does not read or assign
\* _firebase_app: what is recorded is which app was stored, and which calls of
\* get_firebase_app were under way, when the request arrived.
RequestArrives(path, authorization) ==
    /\ \A n \in DOMAIN fb : fb[n].pc # "boot"
    /\ Len(arrivals) < MaxArrivals
    /\ arrivals' = Append(arrivals,
                          [stored |-> firebase_app, running |-> Running(fb),
                           forward |-> dispatch(path, authorization).forward])
    /\ UNCHANGED <<settings, firebase_app, fb, applog, appresults, napp>>
    /\ UNCHANGED <<sessVars, rlsVars, authVars, onbVars>>

NextApp ==
    \/ \E cfg \in Configs : LoadSettings(cfg)
    \/ GetFirebaseApp
    \/ \E n \in 1..MaxAppCalls, store \in StoreOutcomes : ResolveFromSecret(n, store)
    \/ \E n \in 1..MaxAppCalls, ok \in BOOLEAN : Certificate(n, ok)
    \/ \E n \in 1..MaxAppCalls, ok \in BOOLEAN : InitializeApp(n, ok)

\* The process from its start, with requests arriving.
NextColdStart ==
    \/ NextApp
    \/ \E path \in {<<"/", "h", "e", "a", "l", "t", "h">>, <<"/">>},
          authorization \in {NoHeader, <<"B", "e", "a", "r", "e", "r", " ", "tok_tA">>} :
          RequestArrives(path, authorization)

(***************************************************************************)
(* The parts as specifications: each leaves the others' state alone.      *)
(***************************************************************************)

Init == InitSession /\ InitRLS /\ InitAuth /\ InitOnboarding /\ InitApp

SpecSession == Init /\ [][NextSession]_vars

SpecRLS == Init /\ [][NextRLS]_vars

SpecAuth == Init /\ [][NextAuth]_vars

SpecOnboarding == Init /\ [][NextOnboarding]_vars

SpecApp == Init /\ [][NextApp]_vars

SpecColdStart == Init /\ [][NextColdStart]_vars

SpecRequests == Init /\ [][NextRequests]_vars

\* One request in the middleware, the calls of register_company and the calls
\* of get_firebase_app, side by side.  The three share no variable, so what
\* one does cannot depend on where the others stand: each runs here while the
\* other two rest in their initial state.
MiddlewareRuns == InitOnboarding /\ InitApp /\ NextAuth

OnboardingRuns == InitAuth /\ InitApp /\ NextOnboarding

FirebaseAppRuns == InitAuth /\ InitOnboarding /\ NextApp

NextCore == MiddlewareRuns \/ OnboardingRuns \/ FirebaseAppRuns

SpecCore == Init /\ [][NextCore]_vars

(***************************************************************************)
(* Properties of SessionManager.get_session                                *)
(***************************************************************************)

\* The positions in unit s's calls of the manager's calls of `op`.
ManagerCalls(s, op) ==
    {i \in DOMAIN calls[s] : calls[s][i].by = "manager" /\ calls[s][i].op = op}

AllOk(s, idx) == \A i \in idx : calls[s][i].ok

\* The positions of the data statements the body ran.
DataStatements(s) ==
    {i \in DOMAIN calls[s] :
        calls[s][i].by = "body" /\ calls[s][i].op \in {"execute", "flush", "delete"}}

\* The body was run: the set-tenant statement succeeded.
Entered(s) == \E i \in ManagerCalls(s, "set") : calls[s][i].ok

OrdinaryExceptions == {"BodyError", "StmtError"}

\* C1: when the body raises an ordinary exception E, the manager never calls
\* commit, calls rollback before it goes on to the reset, and, rollback and
\* reset succeeding, the caller observes E itself.
C1_RollbackAndReraise ==
    \A s \in Units :
        body[s] \in OrdinaryExceptions =>
            /\ ManagerCalls(s, "commit") = {}
            /\ pc[s] \in {"reset", "close", "done"} => ManagerCalls(s, "rollback") # {}
            /\ ( /\ pc[s] = "done"
                 /\ AllOk(s, ManagerCalls(s, "rollback"))
                 /\ AllOk(s, ManagerCalls(s, "reset")) )
               => result[s] = body[s]

C1_Witness ==
    \E s \in Units :
        /\ pc[s] = "done"
        /\ body[s] = "BodyError"
        /\ result[s] = "BodyError"
        /\ ManagerCalls(s, "rollback") # {}

\* C2: when the body returns normally, the manager calls commit exactly once,
\* after everything the body did, and when that commit succeeds it never calls
\* rollback.
C2_CommitOnceNoRollback ==
    \A s \in Units :
        (body[s] = "returned" /\ pc[s] \in {"rollback", "reset", "close", "done"}) =>
            /\ Cardinality(ManagerCalls(s, "commit")) = 1
            /\ \A i \in ManagerCalls(s, "commit"), j \in DOMAIN calls[s] :
                  calls[s][j].by = "body" => j < i
            /\ AllOk(s, ManagerCalls(s, "commit")) => ManagerCalls(s, "rollback") = {}

C2_Witness ==
    \E s \in Units :
        /\ pc[s] = "done"
        /\ body[s] = "returned"
        /\ result[s] = "ok"
        /\ DataStatements(s) # {}
        /\ Cardinality(ManagerCalls(s, "commit")) = 1

\* C3: on every exit path of an entered session the reset is issued, after
\* every commit and rollback of the manager and before the session is closed;
\* when the body returned or raised an ordinary exception a commit or a
\* rollback has gone before it.
C3_ResetBeforeRelease ==
    \A s \in Units :
        (Entered(s) /\ pc[s] \in {"close", "done"}) =>
            /\ \E j \in ManagerCalls(s, "reset") :
                  /\ \A i \in ManagerCalls(s, "commit") \cup ManagerCalls(s, "rollback") : i < j
                  /\ \A k \in ManagerCalls(s, "close") : j < k
            /\ body[s] # "CancelledError" =>
                  ManagerCalls(s, "commit") \cup ManagerCalls(s, "rollback") # {}

C3_Witness ==
    \E s, r \in Units :
        /\ pc[s] = "done" /\ body[s] = "returned" /\ ManagerCalls(s, "reset") # {}
        /\ pc[r] = "done" /\ body[r] = "BodyError" /\ ManagerCalls(r, "reset") # {}

\* C4: a request for a session with an absent or empty tenant id, through any
\* of the three entry points, ends at once with ValueError: no session was
\* created, no connection checked out, no statement executed.
C4_TenantRequired ==
    \A s \in Units :
        (pc[s] # "new" /\ Falsy(tenant_id[s])) =>
            /\ pc[s] = "done"
            /\ result[s] = "ValueError"
            /\ calls[s] = <<>>
            /\ session[s] = 0
            /\ \A c \in Conns : pool[c].owner # s

C4_Witness ==
    \E s, r \in Units :
        /\ use[s] = "insert_company" /\ tenant_id[s] = "" /\ result[s] = "ValueError"
        /\ use[r] = "get_db_with_tenant" /\ tenant_id[r] = NoneVal /\ result[r] = "ValueError"

\* C5: every data statement of a session comes after a successful set-tenant
\* statement of that session whose bound value is the session's tenant id, and
\* runs with that value in effect.
C5_SetBeforeData ==
    \A s \in Units : \A i \in DataStatements(s) :
        /\ \E j \in ManagerCalls(s, "set") :
              j < i /\ calls[s][j].ok /\ calls[s][j].arg = tenant_id[s]
        /\ calls[s][i].arg = tenant_id[s]

C5_Witness ==
    \E s, r \in Units :
        /\ use[s] = "delete_company"
        /\ \E i \in DataStatements(s) : calls[s][i].op = "delete"
        /\ use[r] \in {"get_db_with_tenant", "insert_company"}
        /\ tenant_id[r] # tenant_id[s]
        /\ DataStatements(r) # {}

\* What the caller would observe had the reset not failed.
OriginalOutcome(s) == IF body[s] = "returned" THEN "ok" ELSE body[s]

\* C6: when the reset fails, the caller still observes the body's own outcome:
\* the body's exception when it raised (and rollback succeeded), normal
\* completion when it returned and commit succeeded.
C6_ResetFailureKeepsOutcome ==
    \A s \in Units :
        ( /\ pc[s] = "done"
          /\ ~AllOk(s, ManagerCalls(s, "reset"))
          /\ AllOk(s, ManagerCalls(s, "commit") \cup ManagerCalls(s, "rollback")) )
        => result[s] = OriginalOutcome(s)

\* C7: the tenant binding ends with its transaction: a connection in the pool
\* carries no tenant's binding, a connection a session holds carries no other
\* tenant's binding, and no data statement ran with another tenant's binding.
C7_BindingIsTransactionLocal ==
    /\ \A c \in Conns : pool[c].owner = 0 => pool[c].guc \notin Tenants
    /\ \A s \in Units : session[s] # 0 =>
          Binding(pool, session[s]) \in {Unset, tenant_id[s]}
    /\ \A s \in Units : \A i \in DataStatements(s) :
          calls[s][i].arg \notin Tenants \ {tenant_id[s]}

\* A connection that served a session whose reset failed is now held by a
\* session of another tenant, which has run a data statement on it.
C7_Witness ==
    \E s, r \in Units, c \in Conns :
        /\ pc[s] = "done"
        /\ \E i \in ManagerCalls(s, "set") : calls[s][i].ok /\ calls[s][i].conn = c
        /\ ~AllOk(s, ManagerCalls(s, "reset"))
        /\ tenant_id[r] \in Tenants \ {tenant_id[s]}
        /\ session[r] = c
        /\ \E i \in DataStatements(r) : calls[r][i].conn = c

\* No connection is held by two sessions, and every data statement of a
\* session ran with the session's own tenant binding.
OwnConnection ==
    /\ \A s, r \in Units : (s # r /\ session[s] # 0) => session[s] # session[r]
    /\ \A s \in Units : session[s] # 0 => pool[session[s]].owner = s
    /\ \A s \in Units : \A i \in DataStatements(s) : calls[s][i].arg = tenant_id[s]

\* A step that is not a call of unit u leaves the connection u holds as it is.
NoInterference ==
    \A u \in Units :
        (session[u] # 0 /\ calls'[u] = calls[u]) =>
            /\ session'[u] = session[u]
            /\ pool'[session[u]] = pool[session[u]]

\* C8: in every interleaving of concurrent sessions each session has a
\* connection of its own, its statements run with its own binding, and no
\* set, commit, rollback or reset of one session changes the other's binding.
C8_ConcurrentSessionsIsolated == []OwnConnection /\ [][NoInterference]_vars

C8_Witness ==
    \E s, r \in Units :
        /\ pc[s] = "body" /\ pc[r] = "body"
        /\ tenant_id[s] = "tA" /\ tenant_id[r] = "tB"
        /\ session[s] # 0 /\ session[r] # 0
        /\ DataStatements(s) # {} /\ DataStatements(r) # {}

(***************************************************************************)
(* Properties of the generated policies                                    *)
(***************************************************************************)

\* Every row the last statement read, changed or wrote is of the session's
\* tenant, unless the session is a superuser's.
OnlyOwnRows ==
    \A r \in stmt.old \cup stmt.new :
        r.tenant_id = dbsession.current_tenant \/ dbsession.is_superuser = "on"

\* A step of a session that is not a superuser's adds and removes only rows of
\* the tenant its setting is bound to.
OnlyOwnChanges ==
    dbsession.is_superuser # "on" =>
        \A r \in (companies' \ companies) \cup (companies \ companies') :
            r.tenant_id = dbsession.current_tenant

\* C9: under the generated policies a session that is not a superuser's and
\* whose setting is bound to tenant T selects, updates and deletes only rows
\* whose tenant column is T and inserts or updates only to such rows; only the
\* superuser predicate lets a statement reach another tenant's row.
C9_PoliciesIsolateTenants == []OnlyOwnRows /\ [][OnlyOwnChanges]_vars

\* A session bound to tA has updated its own row while tB's row is in the table.
C9_Witness ==
    /\ dbsession = [is_superuser |-> "off", current_tenant |-> "tA"]
    /\ stmt.cmd = "UPDATE" /\ stmt.old # {} /\ ~stmt.error
    /\ \E r \in companies : r.tenant_id = "tB"

(***************************************************************************)
(* Properties of AuthMiddleware.dispatch                                   *)
(***************************************************************************)

\* C10: a request to an exempt path, whatever its Authorization header, is
\* forwarded to the handler exactly once, without the header being read and
\* without the verifier being called.
C10_ExemptNotInspected ==
    (phase # "idle" /\ IsExempt(request.path)) =>
        /\ header_reads = 0
        /\ verify_calls = 0
        /\ forwards = 1
        /\ state = EmptyState

\* An exempt request carrying an invalid token has been forwarded and answered.
C10_Witness ==
    /\ phase = "done"
    /\ request.path = <<"/", "h", "e", "a", "l", "t", "h">>
    /\ request.authorization = <<"B", "e", "a", "r", "e", "r", " ", "tok_invalid">>
    /\ forwards = 1
    /\ response.by = "handler"

\* The five listed exemptions: excluded_paths before the request's own path
\* is appended to it.
ListedExemptions == ExcludedPaths(<<>>)

\* path is base itself or lies below it.
IsSubPathOf(path, base) == path = base \/ StartsWith(path, base \o <<"/">>)

\* The exemptions as documented: a listed path, a sub-path of one, or a path
\* under /public/.
DocumentedExempt(path) ==
    \/ \E base \in ListedExemptions : IsSubPathOf(path, base)
    \/ StartsWith(path, <<"/", "p", "u", "b", "l", "i", "c", "/">>)

\* C11: a request is treated as exempt only if its path is one of /health,
\* /docs, /openapi.json, /redoc, /onboarding, a sub-path of one of these, or
\* lies under /public/; a request to any other path reaches the handler only
\* after its token was verified and found to carry a tenant claim.
C11_ExemptOnlyListed ==
    forwards = 1 =>
        \/ DocumentedExempt(request.path)
        \/ verify_calls = 1 /\ state.tenant_id \in Tenants

\* The header is missing, empty, not two whitespace-separated words, or its
\* first word is not "bearer" in any case.
Malformed(a) ==
    \/ a = NoHeader
    \/ a = <<>>
    \/ Len(Split(a)) # 2
    \/ Lower(Split(a)[1]) # <<"b", "e", "a", "r", "e", "r">>

\* The request went through the authentication stage.
Examined == phase # "idle" /\ ~IsExempt(request.path)

\* What the verifier makes of the request's token.
Verified == VerifyIdToken(Split(request.authorization)[2])

\* C12: a non-exempt request whose Authorization header is missing, empty,
\* not exactly two whitespace-separated tokens, or whose scheme is not
\* "bearer" in any case, is answered 401; the verifier is never called and the
\* handler is never invoked.
C12_MalformedHeaderRejected ==
    (Examined /\ Malformed(request.authorization)) =>
        /\ phase = "done"
        /\ response.status = 401
        /\ response.by = "middleware"
        /\ verify_calls = 0
        /\ forwards = 0

\* A request with scheme Basic to a protected path has been answered 401.
C12_Witness ==
    /\ phase = "done"
    /\ request.path = <<"/", "e", "x", "a", "m", "p", "l", "e", "/", "m", "y", "-", "c", "o", "m", "p", "a", "n", "y">>
    /\ request.authorization = <<"B", "a", "s", "i", "c", " ", "tok_tA">>
    /\ response.status = 401
    /\ forwards = 0

\* C13: for a non-exempt request with a well-formed bearer header whose token
\* verifies and carries tenant claim T, request.state holds T and the token's
\* uid and email, and the handler is invoked exactly once, with the state
\* already attached.
C13_VerifiedTenantBound ==
    \A T \in Tenants :
        (/\ Examined
         /\ ~Malformed(request.authorization)
         /\ Verified.kind = "claims"
         /\ TenantClaim(Verified) = T) =>
            /\ phase \in {"handler", "done"}
            /\ verify_calls = 1
            /\ forwards = 1
            /\ state.tenant_id = T
            /\ state.user_id = Verified.uid
            /\ state.user_email = Verified.email

\* The handler is running for a request authenticated with "bearer tok_tA".
C13_Witness ==
    /\ phase = "handler"
    /\ request.path = <<"/", "a", "p", "i", "/", "h", "e", "a", "l", "t", "h">>
    /\ request.authorization = <<"b", "e", "a", "r", "e", "r", " ", "tok_tA">>
    /\ state.tenant_id = "tA" /\ state.user_id = "u1" /\ state.user_email = "a@tA"
    /\ forwards = 1

\* C14: a non-exempt request whose token verifies but carries no tenant claim
\* (absent or empty) is answered 403 and the handler is never invoked.
C14_NoTenantClaimForbidden ==
    (/\ Examined
     /\ ~Malformed(request.authorization)
     /\ Verified.kind = "claims"
     /\ TenantClaim(Verified) \in {NoneVal, ""}) =>
        /\ phase = "done"
        /\ response.status = 403
        /\ response.by = "middleware"
        /\ forwards = 0

\* A token whose tenant claim is the empty string has been answered 403.
C14_Witness ==
    /\ phase = "done"
    /\ ~IsExempt(request.path)
    /\ request.authorization = <<"B", "e", "a", "r", "e", "r", " ", "tok_emptytenant">>
    /\ response.status = 403
    /\ forwards = 0

\* C15: a non-exempt request whose token verification fails as invalid or as
\* expired is answered 401 and the handler is never invoked.
C15_InvalidOrExpiredUnauthorized ==
    (/\ Examined
     /\ ~Malformed(request.authorization)
     /\ Verified.kind \in {"InvalidIdTokenError", "ExpiredIdTokenError"}) =>
        /\ phase = "done"
        /\ response.status = 401
        /\ response.by = "middleware"
        /\ verify_calls = 1
        /\ forwards = 0

\* An expired token has been answered 401.
C15_Witness ==
    /\ phase = "done"
    /\ ~IsExempt(request.path)
    /\ request.authorization = <<"B", "e", "a", "r", "e", "r", " ", "tok_expired">>
    /\ response.status = 401
    /\ verify_calls = 1

\* Two tokens on which the verifier fails otherwise, whatever the errors' texts,
\* get the same outcome.
SameForEveryInternalError ==
    \A t1, t2 \in Tokens :
        (VerifyIdToken(<<t1>>).kind = "Exception" /\ VerifyIdToken(<<t2>>).kind = "Exception") =>
            VerifyAndBind(<<t1>>) = VerifyAndBind(<<t2>>)

\* C16: a verifier failure that is neither invalid-token nor expired-token is
\* answered 500, the handler is never invoked, and the body is the same
\* generic message whatever the internal error's text.
C16_OtherFailureGeneric500 ==
    (/\ Examined
     /\ ~Malformed(request.authorization)
     /\ Verified.kind = "Exception") =>
        /\ phase = "done"
        /\ response = [status |-> 500,
                       detail |-> "Error interno al verificar autenticacion",
                       by |-> "middleware"]
        /\ response.detail # Verified.message
        /\ forwards = 0
        /\ SameForEveryInternalError

\* The second of two internal errors with different texts has been answered.
C16_Witness ==
    /\ phase = "done"
    /\ ~IsExempt(request.path)
    /\ request.authorization = <<"B", "e", "a", "r", "e", "r", " ", "tok_error2">>
    /\ Verified.message # VerifyIdToken(<<"tok_error">>).message
    /\ response.status = 500

\* C17: once a request is forwarded, exempt or authenticated, what the
\* handler returns or raises reaches dispatch's caller unchanged; an exception
\* of the handler is never turned into a response of the middleware.
C17_HandlerPassesThrough ==
    (phase = "done" /\ forwards = 1) =>
        /\ response = handled
        /\ response.by \in {"handler", "exception"}
        /\ (handled.by = "exception" => response.status \notin {401, 403, 500})

\* The handler of an authenticated request raised and the exception left dispatch.
C17_Witness ==
    /\ phase = "done"
    /\ forwards = 1
    /\ verify_calls = 1
    /\ handled.by = "exception"
    /\ response.by = "exception"

(***************************************************************************)
(* Properties of register_company                                          *)
(***************************************************************************)

\* The positions in trace of the calls of op.
TraceCalls(op) == {i \in DOMAIN trace : trace[i].op = op}

\* The positions in trace of the calls made on a database session.
SessionCalls == {i \in DOMAIN trace : trace[i].by \in {"manager", "body"}}

\* auth.create_tenant was called and raised.
TenantCreationFailed ==
    \E i \in TraceCalls("create_tenant") : ~trace[i].ok

\* C18: if external-tenant creation fails, the caller gets a 500, no database
\* session is opened and no row inserted, admin-user creation is never
\* attempted and delete-tenant is never called.
C18_TenantCreationFailureStopsAll ==
    /\ [](TenantCreationFailed =>
            /\ step = "done"
            /\ outcome.status = 500
            /\ db = NoSession
            /\ SessionCalls = {}
            /\ TraceCalls("create_user") = {}
            /\ TraceCalls("delete_tenant") = {}
            /\ Len(trace) = 1)
    /\ [][(step = "create_tenant" /\ step' = "done") =>
            (committed' = committed /\ provider' = provider)]_vars

\* The second call's tenant creation failed while the first call's tenant and
\* row exist.
C18_Witness ==
    /\ step = "done"
    /\ TenantCreationFailed
    /\ outcome.status = 500
    /\ ncalls = 2
    /\ committed # {}
    /\ provider.tenants # {}

\* A call on step 2's session failed: no admin-user creation came before it.
RowInsertFailed ==
    \E i \in SessionCalls :
        /\ ~trace[i].ok
        /\ \A j \in TraceCalls("create_user") : i < j

\* C19: if the row-insert step fails (at insert, flush, commit or session
\* exit) after the external tenant was created, delete-tenant is called
\* exactly once, with the created tenant's id, whether or not it succeeds, and
\* admin-user creation is never attempted.
C19_InsertFailureDeletesTenantOnce ==
    (step = "done" /\ RowInsertFailed) =>
        /\ Cardinality(TraceCalls("delete_tenant")) = 1
        /\ \A i \in TraceCalls("delete_tenant") :
              /\ trace[i].arg = ProviderIds[ncalls]
              /\ \A j \in SessionCalls : j < i
        /\ TraceCalls("create_user") = {}
        /\ outcome.status = 500

\* The insert was committed, the reset on the session's exit failed, and the
\* compensating delete-tenant failed as well.
C19_Witness ==
    /\ step = "done"
    /\ \E i \in TraceCalls("commit") : trace[i].ok
    /\ \E i \in TraceCalls("reset") : ~trace[i].ok
    /\ \E i \in TraceCalls("delete_tenant") : ~trace[i].ok
    /\ TraceCalls("create_user") = {}

\* auth.create_user was called and raised, and every call made after it
\* returned.
UserCreationFailedUndoSucceeded ==
    \E i \in TraceCalls("create_user") :
        /\ ~trace[i].ok
        /\ \A j \in DOMAIN trace : j > i => trace[j].ok

\* The calls of op made after auth.create_user.
UndoCalls(by, op) ==
    {j \in TraceCalls(op) :
        trace[j].by = by /\ \E i \in TraceCalls("create_user") : i < j}

\* C20: if admin-user creation fails and the compensating steps succeed, the
\* tenant's row is deleted and the deletion committed in a new session bound
\* to the same tenant, and only afterwards is the external tenant deleted;
\* each of the two deletions happens exactly once.
C20_UndoRowThenTenant ==
    (step = "done" /\ UserCreationFailedUndoSucceeded) =>
        /\ Cardinality(UndoCalls("manager", "open")) = 1
        /\ Cardinality(UndoCalls("body", "delete")) = 1
        /\ Cardinality(UndoCalls("register_company", "delete_tenant")) = 1
        /\ \A o \in UndoCalls("manager", "open"), b \in UndoCalls("manager", "set"),
              d \in UndoCalls("body", "delete"), c \in UndoCalls("body", "commit"),
              x \in UndoCalls("manager", "close"),
              t \in UndoCalls("register_company", "delete_tenant") :
              /\ o < b /\ b < d /\ d < c /\ c < x /\ x < t
              /\ trace[b].arg = locals.tenant_id
              /\ trace[d].arg = locals.tenant_id
              /\ trace[t].arg = locals.tenant_id
        /\ UndoCalls("body", "commit") # {}
        /\ Visible(committed, locals.tenant_id) = {}
        /\ locals.tenant_id \notin provider.tenants
        /\ outcome.status = 500

\* Admin-user creation failed, the row was deleted and then the tenant.
C20_Witness ==
    /\ step = "done"
    /\ UserCreationFailedUndoSucceeded
    /\ UndoCalls("body", "delete") # {}
    /\ UndoCalls("register_company", "delete_tenant") # {}
    /\ locals.tenant_id = "tA"

\* auth.create_user was called and raised.
UserCreationFailed ==
    \E i \in TraceCalls("create_user") : ~trace[i].ok

\* C21: when admin-user creation fails, each compensating step is attempted
\* independently: the external tenant's deletion is attempted even if the
\* compensating row deletion (opening the session, the lookup, the delete,
\* the commit or the session exit) fails.
C21_TenantDeletionAttemptedAnyway ==
    (step = "done" /\ UserCreationFailed) =>
        UndoCalls("register_company", "delete_tenant") # {}

\* What a tenant session raises.
SessionErrors == {"ValueError", "SetError", "StmtError", "CommitError", "RollbackError", "ResetError"}

\* C22: for every failure of step 2 or step 3 and every outcome of the
\* compensating actions, no compensation failure reaches the caller: the
\* caller receives the 500 that reports the step's own failure.
C22_OriginalFailureReported ==
    /\ (step = "done" /\ RowInsertFailed) =>
          /\ outcome.status = 500
          /\ outcome.detail[1] = "Error al crear empresa en base de datos: "
          /\ outcome.detail[2] \in SessionErrors
          /\ outcome.detail[2] = locals.e
    /\ (step = "done" /\ UserCreationFailed) =>
          \E i \in TraceCalls("create_user") :
              outcome = HTTPException(500, "Error al crear usuario administrador: ", trace[i].arg)

\* Admin-user creation failed, the compensating session failed too, and the
\* caller was told of the admin-user failure.
C22_Witness ==
    /\ step = "done"
    /\ UserCreationFailed
    /\ \E j \in UndoCalls("body", "select") : ~trace[j].ok
    /\ outcome.status = 500
    /\ outcome.detail[2] \in Messages

\* The three steps were called and returned, and nothing outside them raised.
AllStepsSucceeded ==
    /\ step = "done"
    /\ locals.failed # "unexpected"
    /\ \E i \in TraceCalls("create_user") : trace[i].ok
    /\ \A i \in DOMAIN trace : trace[i].ok

\* C23: when tenant creation, row insertion and admin-user creation all
\* succeed, the result is the success outcome (201) whose tenant id is the id
\* the identity provider returned, whose company id equals the tenant id, and
\* whose admin user id is the uid user creation returned.
C23_SuccessOutcome ==
    AllStepsSucceeded =>
        /\ outcome.status = 201
        /\ \A c \in TraceCalls("create_tenant") : outcome.tenant_id = trace[c].arg
        /\ outcome.company_id = outcome.tenant_id
        /\ outcome.admin_user_id = ProviderUids[ncalls]
        /\ [uid |-> outcome.admin_user_id, tenant_id |-> outcome.tenant_id] \in provider.users
        /\ Visible(committed, outcome.tenant_id) # {}

\* The first call went through all three steps.
C23_Witness ==
    /\ AllStepsSucceeded
    /\ ncalls = 1
    /\ outcome.status = 201
    /\ outcome.tenant_id = "tA"

\* C24: the steps occur in the order create-tenant, insert-row, create-user;
\* the insert is attempted only after tenant creation returned an id and uses
\* that id as the row key, admin-user creation only after the insert step
\* completed successfully, and no later step once an earlier one failed.
C24_StepsInOrder ==
    /\ Cardinality(TraceCalls("create_tenant")) <= 1
    /\ \A i \in SessionCalls \cup TraceCalls("create_user") :
          \E c \in TraceCalls("create_tenant") : c < i /\ trace[c].ok
    /\ \A f \in TraceCalls("flush") :
          \E c \in TraceCalls("create_tenant") : trace[f].arg = trace[c].arg
    /\ \A u \in TraceCalls("create_user") :
          /\ \A j \in SessionCalls : j < u => trace[j].ok
          /\ \E f \in TraceCalls("flush"), k \in TraceCalls("commit"), x \in TraceCalls("close") :
                f < k /\ k < x /\ x < u

\* Admin-user creation has been called, after the insert's session was closed.
C24_Witness ==
    /\ step = "undo_company"
    /\ db.pc = "none"
    /\ UserCreationFailed
    /\ Len(trace) = 8

\* Every compensating call that was made returned: the delete-tenant calls
\* and the calls of the session opened after auth.create_user raised.
CompensationsSucceeded ==
    \A i \in DOMAIN trace :
        (trace[i].op = "delete_tenant" \/ \E u \in TraceCalls("create_user") : u < i) =>
            trace[i].ok

\* C25: whenever the call ends in failure and every compensating action that
\* was attempted succeeded, the system is back at Start: neither the external
\* tenant this call created nor a row for it exists afterwards.
C25_FailureRestoresStart ==
    (step = "done" /\ outcome.status = 500 /\ CompensationsSucceeded) =>
        \A c \in TraceCalls("create_tenant") :
            trace[c].ok =>
                /\ trace[c].arg \notin provider.tenants
                /\ Visible(committed, trace[c].arg) = {}

\* A statement outside the three steps raised and the call has ended.
UnexpectedEscaped == step = "done" /\ locals.failed = "unexpected"

\* C26: an exception that escapes the three steps and is not the endpoint's
\* own HTTP error reaches the caller as the generic 500, and if an external
\* tenant had been created, delete-tenant is attempted once, as the last
\* call, its own failure ignored.
C26_UnexpectedGeneric500 ==
    UnexpectedEscaped =>
        /\ outcome.status = 500
        /\ outcome.detail = <<"Error inesperado durante el proceso de onboarding">>
        /\ IF \E c \in TraceCalls("create_tenant") : trace[c].ok
           THEN /\ Cardinality(TraceCalls("delete_tenant")) = 1
                /\ \A t \in TraceCalls("delete_tenant") :
                      /\ t = Len(trace)
                      /\ \E c \in TraceCalls("create_tenant") : trace[t].arg = trace[c].arg
           ELSE TraceCalls("delete_tenant") = {}

\* After all three steps returned, the response could not be built and the
\* safety net's delete-tenant failed as well.
C26_Witness ==
    /\ UnexpectedEscaped
    /\ \E i \in TraceCalls("create_user") : trace[i].ok
    /\ \E t \in TraceCalls("delete_tenant") : ~trace[t].ok
    /\ outcome.status = 500

\* C27: for internal failures of the identity provider or the database the
\* detail returned to the caller does not depend on the internal exception's
\* message: the message of a failed call is no part of the detail.
C27_DetailHidesInternalMessage ==
    (step = "done" /\ outcome.status = 500) =>
        \A i \in DOMAIN trace :
            (~trace[i].ok /\ trace[i].arg \in Messages) =>
                \A k \in DOMAIN outcome.detail : outcome.detail[k] # trace[i].arg

\* The second call ended in success, as the first did, with the same name.
TwoSuccessesSameName ==
    /\ step = "done"
    /\ ncalls = 2
    /\ outcome.status = 201
    /\ Len(history) = 1
    /\ history[1].status = 201
    /\ \A r \in committed : r.name = locals.company_name

\* C28: register_company is not idempotent and enforces no deduplication:
\* two successful calls with the same company name each invoke tenant
\* creation and leave two distinct external tenants and two distinct rows.
C28_NoDeduplication ==
    TwoSuccessesSameName =>
        /\ \E c \in TraceCalls("create_tenant") : trace[c].ok
        /\ outcome.tenant_id # history[1].tenant_id
        /\ {outcome.tenant_id, history[1].tenant_id} \subseteq provider.tenants
        /\ Cardinality(provider.tenants) = 2
        /\ Cardinality(committed) = 2
        /\ Visible(committed, outcome.tenant_id) # {}
        /\ Visible(committed, history[1].tenant_id) # {}

\* Two calls named acme have both succeeded.
C28_Witness ==
    /\ TwoSuccessesSameName
    /\ locals.company_name = "acme"
    /\ Cardinality(committed) = 2

\* The positions in applog of the events of the n-th call of get_firebase_app.
AppCalls(n, op) == {i \in DOMAIN applog : applog[i].call = n /\ applog[i].op = op}

\* The token verifier raised for the request.
VerifierFailed ==
    /\ Examined
    /\ ~Malformed(request.authorization)
    /\ Verified.kind \in {"InvalidIdTokenError", "ExpiredIdTokenError", "Exception"}

\* C29: no retries.  Within one request the token verifier is invoked at most
\* once; within one call of register_company create_tenant and create_user
\* are each invoked at most once; within one credential resolution the secret
\* store is accessed at most once; and a failure of any of these calls
\* reaches the caller (an error response, a 500, a RuntimeError) with no
\* second attempt.
C29_NoRetries ==
    /\ verify_calls <= 1
    /\ VerifierFailed =>
          /\ phase = "done"
          /\ verify_calls = 1
          /\ response.by = "middleware"
          /\ response.status \in {401, 500}
          /\ forwards = 0
    /\ Cardinality(TraceCalls("create_tenant")) <= 1
    /\ Cardinality(TraceCalls("create_user")) <= 1
    /\ (step = "done" /\ (TenantCreationFailed \/ UserCreationFailed)) =>
          outcome.status = 500
    /\ \A n \in 1..MaxAppCalls :
          /\ Cardinality(AppCalls(n, "access_secret_version")) <= 1
          /\ (\E i \in AppCalls(n, "access_secret_version") : ~applog[i].ok) =>
                /\ Len(appresults) >= n
                /\ appresults[n].kind = "RuntimeError"
                /\ fb[n].pc = "returned"

\* The secret store denied access during the first call of get_firebase_app,
\* which raised, and the second call asked the store again.
C29_Witness ==
    /\ Len(appresults) >= 1
    /\ appresults[1].kind = "RuntimeError"
    /\ \E i \in AppCalls(1, "access_secret_version") : ~applog[i].ok
    /\ AppCalls(2, "access_secret_version") # {}

\* A call of get_firebase_app returned an app.
Succeeded(n) == n \in DOMAIN appresults /\ appresults[n].kind = "app"

\* C30: get_firebase_app is memoized after its first success: every later
\* call returns the same app and adds no access of the secret store, no read
\* of the credentials file, no certificate and no initialize_app.
C30_MemoizedAfterSuccess ==
    \A n \in 1..MaxAppCalls :
        Succeeded(n) =>
            /\ \A m \in DOMAIN appresults : m > n => appresults[m] = appresults[n]
            /\ \A i \in DOMAIN applog : applog[i].call <= n
            /\ firebase_app = appresults[n].value
            /\ Running(fb) = {}

\* The first call failed, the second initialised the app from the credentials
\* file, and the third returned that app.
C30_Witness ==
    /\ Len(appresults) = 3
    /\ appresults[1].kind = "RuntimeError"
    /\ Succeeded(2)
    /\ appresults[3] = appresults[2]
    /\ AppCalls(2, "read_file") # {}

\* A call of get_firebase_app raised.
Failed(n) == n \in DOMAIN appresults /\ appresults[n].kind = "RuntimeError"

\* C31: no re-resolution on failure: once a call of get_firebase_app has
\* failed, no later call accesses the secret store, reads the credentials
\* file, builds a certificate or calls initialize_app.
C31_NoResolutionAfterFailure ==
    \A n \in 1..MaxAppCalls :
        Failed(n) => \A i \in DOMAIN applog : applog[i].call <= n

\* The settings lack a field that the selected credentials mode requires.
ConfigurationMissing ==
    IF settings.use_secret_manager
    THEN Falsy(settings.gcp_project_id) \/ Falsy(settings.firebase_credentials_secret_name)
    ELSE Falsy(settings.firebase_credentials_path)

\* Why the n-th call of get_firebase_app failed to resolve credentials.
CauseOf(n) ==
    IF \E i \in AppCalls(n, "json.loads") : applog[i].raised = "JSONDecodeError"
    THEN "malformed credential"
    ELSE IF \E i \in AppCalls(n, "access_secret_version") :
                applog[i].raised \in {"PermissionDenied", "NotFound"}
    THEN "credential unavailable"
    ELSE IF ConfigurationMissing /\ \A i \in DOMAIN applog : applog[i].call # n
    THEN "configuration error"
    ELSE "other"

\* C32: credential resolution reports missing configuration, a credential the
\* store denies or does not have, and an unparseable payload as three
\* distinguishable error kinds: two failed resolutions with different causes
\* among these raise exceptions of different classes.
C32_CausesDistinguishable ==
    \A n, m \in DOMAIN appresults :
        (/\ Failed(n)
         /\ Failed(m)
         /\ CauseOf(n) # "other"
         /\ CauseOf(m) # "other"
         /\ CauseOf(n) # CauseOf(m)) =>
            appresults[n].cause # appresults[m].cause

\* The positions in applog of the calls of initialize_app that returned an app.
Initialisations == {i \in DOMAIN applog : applog[i].op = "initialize_app" /\ applog[i].ok}

\* C33: exactly-once initialisation: over any sequence of calls of
\* get_firebase_app in one process, whatever each finds and however the
\* earlier ones ended, initialize_app returns an app at most once, and that
\* app is the one stored.
C33_InitialisedAtMostOnce ==
    /\ Cardinality(Initialisations) <= 1
    /\ \A i \in Initialisations :
          /\ Succeeded(applog[i].call)
          /\ firebase_app = appresults[applog[i].call].value

\* The first call initialised the app from the secret and two more calls have
\* returned since.
C33_Witness ==
    /\ napp = 3
    /\ Len(appresults) = 3
    /\ Succeeded(1)
    /\ AppCalls(1, "access_secret_version") # {}
    /\ Cardinality(Initialisations) = 1

(***************************************************************************)
(* Cancellation and failures of the manager's own statements               *)
(***************************************************************************)

\* C35: when the unit of work is cancelled while its body is suspended, the
\* cancellation being thrown into the body as an exception, the manager calls
\* rollback before the session is closed.
C35_CancelledRollsBack ==
    \A s \in Units :
        (body[s] = "CancelledError" /\ pc[s] = "done") =>
            \E i \in ManagerCalls(s, "rollback") :
                \A k \in ManagerCalls(s, "close") : i < k

\* The body returned and the manager's commit raised.
CommitFailed(s) ==
    /\ body[s] = "returned"
    /\ \E i \in ManagerCalls(s, "commit") : ~calls[s][i].ok

\* C38: when the body returns normally and commit fails, the manager calls
\* rollback, then still issues the reset, nothing is committed, and (the
\* rollback succeeding) the caller observes the commit's exception.
C38_CommitFailurePropagates ==
    \A s \in Units :
        (CommitFailed(s) /\ pc[s] = "done") =>
            /\ \E i \in ManagerCalls(s, "commit"), j \in ManagerCalls(s, "rollback"),
                  k \in ManagerCalls(s, "reset") : i < j /\ j < k
            /\ \A i \in ManagerCalls(s, "commit") : ~calls[s][i].ok
            /\ AllOk(s, ManagerCalls(s, "rollback")) => result[s] = "CommitError"

\* The SET LOCAL statement of the session raised.
SetTenantFailed(s) == \E i \in ManagerCalls(s, "set") : ~calls[s][i].ok

\* C39: when the initial set-tenant statement fails, the body is never run,
\* the manager issues no commit, no rollback and no reset, and the failure
\* reaches the caller after the session is closed.
C39_SetTenantFailureClosesOnly ==
    \A s \in Units :
        SetTenantFailed(s) =>
            /\ body[s] = "none"
            /\ DataStatements(s) = {}
            /\ ManagerCalls(s, "commit") = {}
            /\ ManagerCalls(s, "rollback") = {}
            /\ ManagerCalls(s, "reset") = {}
            /\ pc[s] \in {"close", "done"}
            /\ result[s] # "none" <=> ManagerCalls(s, "close") # {}
            /\ pc[s] = "done" =>
                  /\ result[s] = "SetError"
                  /\ Len(calls[s]) = 3
                  /\ session[s] = 0

\* One request's session failed at SET LOCAL and was closed, while the other
\* unit's session is in its body.
C39_Witness ==
    \E s, r \in Units :
        /\ pc[s] = "done"
        /\ use[s] = "get_db_with_tenant"
        /\ SetTenantFailed(s)
        /\ result[s] = "SetError"
        /\ pc[r] = "body"

\* dispatch answered the request itself with an error status.
RejectedByMiddleware ==
    phase = "done" /\ response.by = "middleware" /\ response.status \in {401, 403, 500}

\* C40: whenever dispatch rejects a request (401, 403 or 500) it has attached
\* no tenant id, user id, email or decoded token to request.state; the state is
\* written only for a request whose token verified with a tenant claim, which
\* is then forwarded.
C40_RejectionLeavesStateEmpty ==
    /\ RejectedByMiddleware => (state = EmptyState /\ forwards = 0)
    /\ state # EmptyState =>
          /\ forwards = 1
          /\ Examined
          /\ ~Malformed(request.authorization)
          /\ Verified.kind = "claims"
          /\ ~Falsy(TenantClaim(Verified))
          /\ response.by # "middleware"

\* A verified token without a tenant claim was answered 403, and nothing was
\* attached to the request.
C40_Witness ==
    /\ RejectedByMiddleware
    /\ ~IsExempt(request.path)
    /\ request.authorization = <<"B", "e", "a", "r", "e", "r", " ", "tok_notenant">>
    /\ response.status = 403
    /\ verify_calls = 1
    /\ state = EmptyState

\* The compensation's own commit of the row's deletion succeeded.
CompensatingDeleteCommitted ==
    \E i \in DOMAIN trace : trace[i].by = "body" /\ trace[i].op = "commit" /\ trace[i].ok

\* This step is the call of auth.create_user.
CallsCreateUser ==
    /\ \A i \in DOMAIN trace : trace[i].op # "create_user"
    /\ \E i \in DOMAIN trace' : trace'[i].op = "create_user"

\* The manager committed step 2's session and closed it, in that order.
InsertSessionCommittedAndClosed ==
    \E i, j \in DOMAIN trace :
        /\ i < j
        /\ trace[i] = Ev("manager", "commit", TRUE, 0, locals.tenant_id)
        /\ trace[j] = Ev("manager", "close", TRUE, 0, locals.tenant_id)

\* C37: when register_company calls auth.create_user, the row inserted in
\* step 2 is already committed and its session closed; so whenever create_user
\* has failed the committed row is there until the compensating delete has
\* been committed.
C37_RowCommittedBeforeCreateUser ==
    /\ [][CallsCreateUser =>
            /\ NewCompany(locals) \in committed
            /\ InsertSessionCommittedAndClosed
            /\ db.pc = "closed"
            /\ db.raised = NoExc
            /\ db.pending = "none"]_vars
    /\ []((UserCreationFailed /\ ~CompensatingDeleteCommitted) =>
            NewCompany(locals) \in committed)

\* Admin-user creation failed and the compensating session failed at its
\* lookup: the call is over and the tenant's row is still committed.
C37_Witness ==
    /\ step = "done"
    /\ UserCreationFailed
    /\ \E i \in DOMAIN trace : trace[i].by = "body" /\ trace[i].op = "select" /\ ~trace[i].ok
    /\ NewCompany(locals) \in committed

\* The requests that reached dispatch before any app was stored.
ColdArrivals == {i \in DOMAIN arrivals : arrivals[i].stored = NoneVal}

\* The positions in applog of the calls of initialize_app, whatever they gave.
InitialisationRuns == {i \in DOMAIN applog : applog[i].op = "initialize_app"}

VerifiedTenant(s) == TenantClaim(VerifyIdToken(Split(reqs[s].authorization)[2]))

\* C36: in every interleaving of concurrent authenticated requests, the
\* session get_db_with_tenant hands to a request's handler belongs to a manager
\* built with the tenant claim of the token verified for that request, is
\* bound to that tenant when the handler gets it, and runs the handler's
\* statements under that binding, never another request's.
C36_SessionBoundToOwnToken ==
    \A s \in Units :
        Entered(s) =>
            /\ reqs[s].pc = "handler"
            /\ ~IsExempt(reqs[s].path)
            /\ ~Malformed(reqs[s].authorization)
            /\ VerifyIdToken(Split(reqs[s].authorization)[2]).kind = "claims"
            /\ tenant_id[s] = VerifiedTenant(s)
            /\ VerifiedTenant(s) \in Tenants
            /\ (pc[s] = "body" /\ session[s] # 0) =>
                  Binding(pool, session[s]) = VerifiedTenant(s)
            /\ \A i \in DataStatements(s) : calls[s][i].arg = VerifiedTenant(s)

\* Two requests with tokens of different tenants are in their handlers at
\* once, each with a session on a connection of its own, and each has run a
\* statement.
C36_Witness ==
    \E s, r \in Units :
        /\ pc[s] = "body" /\ pc[r] = "body"
        /\ reqs[s].pc = "handler" /\ reqs[r].pc = "handler"
        /\ VerifiedTenant(s) = "tA" /\ VerifiedTenant(r) = "tB"
        /\ session[s] # 0 /\ session[r] # 0
        /\ DataStatements(s) # {} /\ DataStatements(r) # {}

====
